---------------------------- MODULE Spec2Model ----------------------------
(***************************************************************************)
(* Model of src/services/socketService.js: the native-WebSocket message    *)
(* decoder (connectNativeWebSocket.onmessage) and the Socket.IO            *)
(* subscription registry (subscribeToEarthquakeData).                      *)
(*                                                                         *)
(* A JavaScript string is a sequence of its UTF-16 code units, each a      *)
(* string: the character itself for a printable ASCII character and for    *)
(* TAB, LF, FF and CR ("\t", "\n", "\f", "\r"), the name of the code unit  *)
(* for any other ("U+000B", "U+00E9", "U+2003").  A JavaScript value is a  *)
(* record with a field t (its typeof class).                               *)
(***************************************************************************)
EXTENDS Integers, Sequences, FiniteSets, TLC

(***************************************************************************)
(* JavaScript values                                                       *)
(***************************************************************************)

\* A finite number s * m * 10^(-e): the sign s is 1 or -1 and m is the
\* sequence of its decimal digits, without a zero at either end; 0 and -0 are
\* the digits <<0>> with e = 0.
Finite(sign, digits, e) ==
  [t |-> "number", k |-> "finite", s |-> sign, m |-> digits, e |-> e]

\* The finite number m * 10^(-e) for an integer m.
Norm(m, e) ==
  LET RECURSIVE DigitsOf(_)
      DigitsOf(n) == IF n < 10 THEN <<n>>
                     ELSE Append(DigitsOf(n \div 10), n % 10)
      RECURSIVE Zeros(_)
      Zeros(n) == IF n % 10 = 0 THEN 1 + Zeros(n \div 10) ELSE 0
      abs == IF m < 0 THEN 0 - m ELSE m
  IN  IF m = 0 THEN Finite(1, <<0>>, 0)
      ELSE Finite(IF m < 0 THEN -1 ELSE 1,
                  SubSeq(DigitsOf(abs), 1, Len(DigitsOf(abs)) - Zeros(abs)),
                  e - Zeros(abs))

NaN == [t |-> "number", k |-> "NaN", s |-> 1, m |-> <<>>, e |-> 0]

Infinity(sign) == [t |-> "number", k |-> "Infinity", s |-> sign, m |-> <<>>, e |-> 0]

Str(s) == [t |-> "string", s |-> s]

Undefined == [t |-> "undefined"]

Null == [t |-> "null"]

Obj(props) == [t |-> "object", props |-> props]

Arr(items) == [t |-> "array", items |-> items]

Bool(b) == [t |-> "boolean", b |-> b]

\* A BigInt, and an object one of whose properties refers to the object
\* itself: the values JSON.stringify throws a TypeError for.
BigInt == [t |-> "bigint"]

Cyclic == [t |-> "cyclic"]

\* A variant of isNaN that takes every value for a number: C11 must tell it
\* from the decoder.
isNaNNever(v) == FALSE

\* isNaN(v) for a value that is already a number.
isNaN(v) == v.t = "number" /\ v.k = "NaN"

\* typeof v === 'string'
IsString(v) == v.t = "string"

\* typeof v === 'number'
IsNumber(v) == v.t = "number"

\* o.key for a parsed JSON value o (undefined when absent or o has no such key).
Get(o, key) == IF o.t = "object" /\ key \in DOMAIN o.props THEN o.props[key]
               ELSE Undefined

\* JavaScript truthiness of a value.
Truthy(v) == CASE v.t = "undefined" -> FALSE
               [] v.t = "null" -> FALSE
               [] v.t = "number" -> ~(v.k = "NaN" \/ (v.k = "finite" /\ v.m = <<0>>))
               [] v.t = "string" -> Len(v.s) > 0
               [] v.t = "boolean" -> v.b
               [] OTHER -> TRUE

\* { ...a, ...b }: the keys of both, b's value where both have the key.
Spread(a, b) == [key \in DOMAIN a \cup DOMAIN b |->
                   IF key \in DOMAIN b THEN b[key] ELSE a[key]]

(***************************************************************************)
(* JavaScript string functions, on sequences of characters                 *)
(***************************************************************************)

Digits == {"0", "1", "2", "3", "4", "5", "6", "7", "8", "9"}

DigitVal(c) == CASE c = "0" -> 0 [] c = "1" -> 1 [] c = "2" -> 2 [] c = "3" -> 3
                 [] c = "4" -> 4 [] c = "5" -> 5 [] c = "6" -> 6 [] c = "7" -> 7
                 [] c = "8" -> 8 [] c = "9" -> 9

\* The code units String.prototype.trim and parseFloat strip: ECMAScript
\* WhiteSpace (TAB, VT, FF, SP, NBSP, ZWNBSP and the space separators of
\* Unicode) and LineTerminator (LF, CR, U+2028, U+2029).
WhiteSpace == {"\t", "\n", "U+000B", "\f", "\r", " ", "U+00A0", "U+1680",
               "U+2000", "U+2001", "U+2002", "U+2003", "U+2004", "U+2005",
               "U+2006", "U+2007", "U+2008", "U+2009", "U+200A", "U+2028",
               "U+2029", "U+202F", "U+205F", "U+3000", "U+FEFF"}

\* s.substring(from) with a 0-based index.
Substring(s, from) == SubSeq(s, from + 1, Len(s))

\* Whether p occurs in s at the 0-based index i.
OccursAt(s, p, i) == /\ i + Len(p) <= Len(s)
                     /\ SubSeq(s, i + 1, i + Len(p)) = p

\* s.startsWith(p)
StartsWith(s, p) == OccursAt(s, p, 0)

\* The first 0-based index from i on at which p occurs in s, or -1.
RECURSIVE IndexFrom(_, _, _)
IndexFrom(s, p, i) == IF i + Len(p) > Len(s) THEN -1
                      ELSE IF OccursAt(s, p, i) THEN i
                      ELSE IndexFrom(s, p, i + 1)

\* s.indexOf(p)
IndexOf(s, p) == IndexFrom(s, p, 0)

\* s.includes(p)
Includes(s, p) == IndexOf(s, p) >= 0

\* s.split(sep) for a non-empty separator: the pieces between the
\* non-overlapping occurrences of sep, taken from the left.
RECURSIVE Split(_, _)
Split(s, sep) ==
  LET i == IndexOf(s, sep)
  IN  IF i < 0 THEN <<s>>
      ELSE <<SubSeq(s, 1, i)>> \o Split(Substring(s, i + Len(sep)), sep)

RECURSIVE TrimStart(_)
TrimStart(s) == IF Len(s) > 0 /\ Head(s) \in WhiteSpace THEN TrimStart(Tail(s))
                ELSE s

RECURSIVE TrimEnd(_)
TrimEnd(s) == IF Len(s) > 0 /\ s[Len(s)] \in WhiteSpace
              THEN TrimEnd(SubSeq(s, 1, Len(s) - 1))
              ELSE s

\* s.trim()
Trim(s) == TrimEnd(TrimStart(s))

\* The length of the longest run of digits at the start of s.
RECURSIVE DigitRun(_)
DigitRun(s) == IF Len(s) > 0 /\ Head(s) \in Digits THEN 1 + DigitRun(Tail(s))
               ELSE 0

RECURSIVE Pow10(_)
Pow10(n) == IF n = 0 THEN 1 ELSE 10 * Pow10(n - 1)

(***************************************************************************)
(* parseFloat and parseInt return the IEEE 754 double nearest to the       *)
(* literal, and a finite number of the model names a double by its         *)
(* shortest decimal (the digits String(x) prints).  The arithmetic below   *)
(* is exact: a natural number is a sequence of limbs of three digits, the  *)
(* lowest first, and 0 is the empty sequence.                              *)
(***************************************************************************)

\* The product of two naturals; the limbs of a and b may exceed 999 as long
\* as the sums of the limb products stay below 2^31.
Mul(a, b) ==
  LET RECURSIVE Dot(_, _, _)
      Dot(k, lo, hi) ==
        IF lo > hi THEN 0
        ELSE IF lo = hi THEN a[lo] * b[k - lo]
        ELSE Dot(k, lo, (lo + hi) \div 2) + Dot(k, (lo + hi) \div 2 + 1, hi)
      Trimmed(c) ==
        IF \A i \in 1..Len(c) : c[i] = 0 THEN <<>>
        ELSE SubSeq(c, 1, CHOOSE i \in 1..Len(c) :
                            c[i] # 0 /\ \A j \in (i + 1)..Len(c) : c[j] = 0)
      RECURSIVE Carried(_)
      Carried(c) ==
        IF \A i \in 1..Len(c) : c[i] < 1000 THEN Trimmed(c)
        ELSE Carried([i \in 1..(Len(c) + 1) |->
                       (IF i <= Len(c) THEN c[i] % 1000 ELSE 0)
                       + (IF i > 1 THEN c[i - 1] \div 1000 ELSE 0)] \o <<>>)
  IN  IF Len(a) = 0 \/ Len(b) = 0 THEN <<>>
      ELSE Carried([k \in 1..(Len(a) + Len(b) - 1) |->
                     Dot(k + 1, IF k + 1 - Len(b) > 1 THEN k + 1 - Len(b) ELSE 1,
                         IF k < Len(a) THEN k ELSE Len(a))] \o <<>>)

\* b^n for a limb b.
RECURSIVE Power(_, _)
Power(b, n) ==
  LET Step(a) == Mul(IF n % 2 = 1 THEN <<b>> ELSE a, a)
  IN  IF n = 0 THEN <<1>>
      ELSE Step(Power(b, IF n % 2 = 1 THEN n - 1 ELSE n \div 2))

(***************************************************************************)
(* The double nearest to sig * 10^dexp, for the digits sig (the first not  *)
(* "0") with 10^-325 <= value < 10^309: q * 2^x as [hi, lo, x], where      *)
(* q = hi * 10^9 + lo is 0 (underflow), or 2^52 <= q < 2^53, or q < 2^52   *)
(* and x = -1074 (a subnormal); x > 971 is the overflow to Infinity.       *)
(* With s the largest exponent up to 1074 that keeps value * 2^s below     *)
(* 2^53, q is value * 2^s rounded to an integer, a half to the even one.   *)
(* value * 2^s is written n * 2^a * 5^b / 10^c for naturals a, b and c.    *)
(***************************************************************************)
ToDouble(sig, dexp) ==
  LET d(i) == IF i >= 1 THEN DigitVal(sig[i]) ELSE 0
      Limbs(len) ==
        [j \in 1..((len + 2) \div 3) |->
          d(len - 3 * j + 3) + 10 * d(len - 3 * j + 2)
          + 100 * d(len - 3 * j + 1)] \o <<>>
      \* the digit of a at 10^i
      Dig(a, i) ==
        IF i < 0 \/ i \div 3 + 1 > Len(a) THEN 0
        ELSE (a[i \div 3 + 1]
                \div (IF i % 3 = 0 THEN 1 ELSE IF i % 3 = 1 THEN 10 ELSE 100))
             % 10
      \* the number the count digits of a from 10^from on denote
      RECURSIVE Part(_, _, _)
      Part(a, from, count) ==
        IF count = 0 THEN 0 ELSE Dig(a, from) + 10 * Part(a, from + 1, count - 1)
      \* the remainder against a half: 0 none, 1 below, 2 equal, 3 above
      Rem(top, restZero) ==
        IF top > 5 \/ (top = 5 /\ ~restZero) THEN 3
        ELSE IF top = 5 THEN 2
        ELSE IF top = 0 /\ restZero THEN 0 ELSE 1
      \* a / 10^c: the quotient in two halves of nine digits (big: it has
      \* more), and the remainder
      Quotient(a, c) ==
        [big |-> \E i \in (c + 18)..(3 * Len(a) - 1) : Dig(a, i) # 0,
         halves |-> [h \in 1..2 |-> Part(a, c + 9 * (h - 1), 9)] \o <<>>,
         rem |-> Rem(Dig(a, c - 1), \A i \in 0..(c - 2) : Dig(a, i) = 0)]
      Natural(x) == IF x > 0 THEN x ELSE 0
      \* the numerator of value * 2^s, k being the power of ten that is
      \* left once 2^s is written 5^-s / 10^-s for s < 0
      Scaled(n, s, k) ==
        Mul(n, Mul(Power(2, Natural(s) + Natural(k)),
                   Power(5, Natural(0 - s) + Natural(k))))
      \* value * 2^s0 * 2^i for i from 0 to 7, a0 / 10^c being value * 2^s0
      Doubled(a0, c) ==
        [i \in 1..8 |-> Quotient(Mul(a0, <<2^(i - 1)>>), c)] \o <<>>
      \* below 2^53 = 9007199254740992
      Below53(r) ==
        /\ ~r.big
        /\ \/ r.halves[2] < 9007199
           \/ r.halves[2] = 9007199 /\ r.halves[1] < 254740992
      Binade(hi, lo, s) ==
        IF hi = 9007199 /\ lo = 254740992
        THEN [hi |-> 4503599, lo |-> 627370496, x |-> 1 - s]
        ELSE [hi |-> hi, lo |-> lo, x |-> 0 - s]
      Carry(hi, lo, s) ==
        Binade(IF lo = 1000000000 THEN hi + 1 ELSE hi,
               IF lo = 1000000000 THEN 0 ELSE lo, s)
      Rounded(r, s) ==
        Carry(r.halves[2],
              IF r.rem = 3 \/ (r.rem = 2 /\ r.halves[1] % 2 = 1)
              THEN r.halves[1] + 1 ELSE r.halves[1], s)
      \* qs[i + 1] is value * 2^(s0 + i) and below[i + 1] tells whether it is
      \* below 2^53; s is one of s0 .. s0 + 6, since s0 is 47 less a lower
      \* bound of log2(value) that is within 5 of it
      Pick(qs, s0, j) == Rounded(qs[j + 1], s0 + j)
      Nearest(qs, below, s0) ==
        Pick(qs, s0, CHOOSE i \in 0..6 :
                       /\ s0 + i <= 1074
                       /\ below[i + 1]
                       /\ (s0 + i = 1074 \/ ~below[i + 2]))
      Flagged(qs, s0) == Nearest(qs, [i \in 1..8 |-> Below53(qs[i])] \o <<>>, s0)
      Based(n, s0, k) == Flagged(Doubled(Scaled(n, s0, k), Natural(0 - k)), s0)
      From(n, s0) == Based(n, s0, IF s0 < 0 THEN dexp + s0 ELSE dexp)
      \* a lower bound of log2(10^e10), 3.3219 < log2(10) < 3.3220
      Log2(e10) == IF e10 >= 0 THEN (e10 * 33219) \div 10000
                   ELSE 0 - ((0 - e10) * 33220 + 9999) \div 10000
      Capped(s) == IF s < 1074 THEN s ELSE 1074
  IN  From(Limbs(Len(sig)), Capped(47 - Log2(Len(sig) - 1 + dexp)))

(***************************************************************************)
(* The shortest decimal of the double d = q * 2^x > 0: [m, e] for the      *)
(* digits m and the value m * 10^(-e).  The decimals that round to d lie   *)
(* between L and H, halfway to its neighbours (L nearer when q = 2^52, and *)
(* both counted in when q is even); D is d itself, and all three are       *)
(* written in units of 2^(x-2), as naturals times 10^-scale.  The result   *)
(* ends at the highest power of ten t with a multiple in the interval, and *)
(* is the multiple nearest to D, the one with the even digit of two.       *)
(***************************************************************************)
Shortest(d) ==
  LET \* 4 * (hi * 10^9 + lo) + add
      Q(hi, lo, add) ==
        <<4 * (lo % 1000) + add, 4 * ((lo \div 1000) % 1000),
          4 * (lo \div 1000000), 4 * (hi % 1000),
          4 * ((hi \div 1000) % 1000), 4 * (hi \div 1000000)>>
      \* the digit of a at 10^i
      Dig(a, i) ==
        IF i < 0 \/ i \div 3 + 1 > Len(a) THEN 0
        ELSE (a[i \div 3 + 1]
                \div (IF i % 3 = 0 THEN 1 ELSE IF i % 3 = 1 THEN 10 ELSE 100))
             % 10
      \* the lowest digit of a that is not 0
      Low(a, top) ==
        CHOOSE i \in 0..top : Dig(a, i) # 0 /\ \A j \in 0..(i - 1) : Dig(a, j) = 0
      \* the highest digit of a from t on that is not 0, t - 1 without one
      High(a, t, top) ==
        IF \A i \in t..top : Dig(a, i) = 0 THEN t - 1
        ELSE CHOOSE i \in t..top :
               Dig(a, i) # 0 /\ \A j \in (i + 1)..top : Dig(a, j) = 0
      \* the digits of L from 10^from down to 10^t, then the digits last
      Written(L, from, t, last, e) ==
        [m |-> ([i \in 1..(from - t + 1) |-> Dig(L, from + 1 - i)] \o <<>>)
               \o last,
         e |-> e]
      Ending(L, top, t, last, e) == Written(L, High(L, t, top), t, last, e)
      Up(f, lowZero, odd) == f > 5 \/ (f = 5 /\ ~lowZero) \/ (f = 5 /\ lowZero /\ odd)
      Within(c, cmin, cmax) == IF c < cmin THEN cmin ELSE IF c > cmax THEN cmax ELSE c
      \* the digit of D at 10^t rounded, within cmin and cmax
      Near(D, t, cmin, cmax) ==
        Within(Dig(D, t)
               + (IF Up(Dig(D, t - 1), \A j \in 0..(t - 2) : Dig(D, j) = 0,
                        Dig(D, t) % 2 = 1) THEN 1 ELSE 0),
               cmin, cmax)
      \* the result ends at 10^t, with a digit from cmin to cmax
      Ends(L, D, top, scale, t, cmin, cmax) ==
        Ending(L, top, t + 1, <<Near(D, t, cmin, cmax)>>, scale - t)
      \* tpos is the highest digit at which L and H differ; without a
      \* multiple of 10^tpos in the interval, the result ends at the highest
      \* digit of L below it that is not 9
      Placed(L, D, top, scale, tpos, cmin, cmax, t) ==
        Ends(L, D, top, scale, t,
             IF t = tpos THEN cmin ELSE Dig(L, t) + 1,
             IF t = tpos THEN cmax ELSE 9)
      At(L, D, top, scale, tpos, cmin, cmax) ==
        Placed(L, D, top, scale, tpos, cmin, cmax,
               IF cmin <= cmax THEN tpos
               ELSE CHOOSE i \in 0..(tpos - 1) :
                      /\ Dig(L, i) < 9
                      /\ \A j \in (i + 1)..(tpos - 1) : Dig(L, j) = 9)
      Differ(L, D, H, incl, top, scale, tpos, lowL, lowH) ==
        IF incl /\ lowL > tpos
        THEN Ending(L, top, lowL, <<>>, scale - lowL)
        ELSE At(L, D, top, scale, tpos,
                IF incl /\ lowL >= tpos THEN Dig(L, tpos) ELSE Dig(L, tpos) + 1,
                IF ~incl /\ lowH >= tpos THEN Dig(H, tpos) - 1 ELSE Dig(H, tpos))
      Lows(L, D, H, incl, top, scale, tpos, lows) ==
        Differ(L, D, H, incl, top, scale, tpos, lows[1], lows[2])
      Between(L, D, H, incl, top, scale) ==
        Lows(L, D, H, incl, top, scale,
             CHOOSE i \in 0..top :
               /\ Dig(L, i) # Dig(H, i)
               /\ \A j \in (i + 1)..top : Dig(L, j) = Dig(H, j),
             [i \in 1..2 |-> Low(IF i = 1 THEN L ELSE H, top)] \o <<>>)
      \* ldh is L, D and H
      In(ldh, incl, scale) ==
        Between(ldh[1], ldh[2], ldh[3], incl, 3 * Len(ldh[3]) - 1, scale)
      With(p, tight, scale) ==
        In([i \in 1..3 |->
             Mul(Q(IF i = 1 /\ d.lo = 0 THEN d.hi - 1 ELSE d.hi,
                   IF i > 1 THEN d.lo
                   ELSE IF d.lo > 0 THEN d.lo - 1 ELSE 999999999,
                   IF i = 1 THEN (IF tight THEN 3 ELSE 2)
                   ELSE IF i = 2 THEN 0 ELSE 2), p)] \o <<>>,
           d.lo % 2 = 0, scale)
      Natural(x) == IF x > 0 THEN x ELSE 0
  IN  With(Mul(Power(2, Natural(d.x - 2)), Power(5, Natural(2 - d.x))),
           d.hi = 4503599 /\ d.lo = 627370496 /\ d.x > -1074,
           Natural(2 - d.x))

\* The value of the decimal literal with the digits mant, the last frac of
\* them after the point, and the exponent ex; NaN when it has no digit.  A
\* literal of at most 15 significant digits between 10^-307 and 10^308 is
\* the shortest decimal of its double (no two of them round to the same
\* double), so it is kept as it stands.
DecimalValue(sgn, mant, frac, ex) ==
  LET Written(sh) == Finite(sgn, sh.m, sh.e)
      Double(b) == IF b.hi = 0 /\ b.lo = 0 THEN Finite(sgn, <<0>>, 0)
                   ELSE IF b.x > 971 THEN Infinity(sgn)
                   ELSE Written(Shortest(b))
      \* the places of the first and of the last significant digit
      first == CHOOSE i \in 1..Len(mant) :
                 mant[i] # "0" /\ \A j \in 1..(i - 1) : mant[j] = "0"
      last  == CHOOSE i \in 1..Len(mant) :
                 mant[i] # "0" /\ \A j \in (i + 1)..Len(mant) : mant[j] = "0"
      \* the power of ten of the last significant digit, and of the first
      dexp  == ex - frac + (Len(mant) - last)
      e10   == last - first + dexp
  IN  IF Len(mant) = 0 THEN NaN
      ELSE IF \A i \in 1..Len(mant) : mant[i] = "0" THEN Finite(sgn, <<0>>, 0)
      ELSE IF last - first < 15 /\ e10 >= -307 /\ e10 <= 307
      THEN Finite(sgn, [i \in 1..(last - first + 1) |->
                         DigitVal(mant[first + i - 1])] \o <<>>, 0 - dexp)
      ELSE IF e10 >= 309 THEN Infinity(sgn)
      ELSE IF e10 <= -326 THEN Finite(sgn, <<0>>, 0)
      ELSE Double(ToDouble(SubSeq(mant, first, last), dexp))

\* parseInt(s) for a string of digits (the capture group of /T(\d+)/): the
\* double nearest to the integer.
parseInt(s) == DecimalValue(1, s, 0, 0)

\* The exponent s denotes when it starts with an exponent part (e or E, an
\* optional sign, one digit or more), 0 otherwise.  An exponent of
\* 2 * 10^9 or more counts as 2 * 10^9: a string has fewer than 2^30
\* characters, so the value is 0 or Infinity from there on whatever the
\* digits before the exponent are.
ExponentOf(s) ==
  LET hasE   == Len(s) > 0 /\ Head(s) \in {"e", "E"}
      signed == Len(s) > 1 /\ s[2] \in {"-", "+"}
      digits == IF signed THEN Substring(s, 2) ELSE Substring(s, 1)
      run    == SubSeq(digits, 1, DigitRun(digits))
      RECURSIVE Value(_, _)
      Value(ds, acc) == IF Len(ds) = 0 THEN acc
                        ELSE IF acc >= 200000000 THEN 2000000000
                        ELSE Value(Tail(ds), 10 * acc + DigitVal(Head(ds)))
      value  == Value(run, 0)
  IN  IF ~hasE THEN 0
      ELSE IF signed /\ s[2] = "-" THEN 0 - value ELSE value

\* The digits of the fraction s starts with (a point, then digits).
FractionOf(s) ==
  IF Len(s) > 0 /\ Head(s) = "." THEN SubSeq(s, 2, 1 + DigitRun(Tail(s)))
  ELSE <<>>

\* What follows the fraction frac at the start of s.
AfterFraction(s, frac) ==
  IF Len(s) > 0 /\ Head(s) = "." THEN Substring(s, 1 + Len(frac)) ELSE s

\* s is what follows the integer digits int of the literal.
ParseFractionAndExponent(sgn, int, s, frac) ==
  DecimalValue(sgn, int \o frac, Len(frac), ExponentOf(AfterFraction(s, frac)))

\* s starts after the sign.
ParseUnsigned(sgn, s, ni) ==
  IF StartsWith(s, <<"I", "n", "f", "i", "n", "i", "t", "y">>) THEN Infinity(sgn)
  ELSE ParseFractionAndExponent(sgn, SubSeq(s, 1, ni), Substring(s, ni),
                                FractionOf(Substring(s, ni)))

\* s has no leading white space.
ParseSigned(s, rest) ==
  ParseUnsigned(IF Len(s) > 0 /\ Head(s) = "-" THEN -1 ELSE 1, rest,
                DigitRun(rest))

\* parseFloat(s): skip leading white space, then read the longest prefix that
\* is a decimal literal (sign, digits, fraction, exponent) or Infinity; NaN
\* when there is none.
parseFloat(str) ==
  ParseSigned(TrimStart(str),
              IF Len(TrimStart(str)) > 0 /\ Head(TrimStart(str)) \in {"-", "+"}
              THEN Tail(TrimStart(str)) ELSE TrimStart(str))

(***************************************************************************)
(* nativeWs.onmessage: the line grammar                                    *)
(***************************************************************************)

\* The interval in milliseconds by which earlier samples of a batch are
\* backdated.
SampleStepMs == 10

\* event.data.match(/^T\d+H\d+V\d+,/)
MatchesMetaPrefix(s) ==
  LET nt == DigitRun(Substring(s, 1))
      sh == Substring(s, 1 + nt)
      nh == DigitRun(Substring(sh, 1))
      sv == Substring(sh, 1 + nh)
      nv == DigitRun(Substring(sv, 1))
      sc == Substring(sv, 1 + nv)
  IN  /\ StartsWith(s, <<"T">>) /\ nt > 0
      /\ StartsWith(sh, <<"H">>) /\ nh > 0
      /\ StartsWith(sv, <<"V">>) /\ nv > 0
      /\ StartsWith(sc, <<",">>)

\* A variant of MatchDigitsAfter that captures the first run of digits of s
\* whatever the letter: C2 must tell it from the decoder.
MatchFirstDigits(s, letter) == SubSeq(s, 2, 1 + DigitRun(Substring(s, 1)))

\* s.match(/L(\d+)/) for a letter L: the digits captured by the leftmost
\* match, or <<>> when there is no match (a match captures one digit or more).
MatchDigitsAfter(s, letter) ==
  LET hits == {i \in 1..Len(s) : s[i] = letter /\ DigitRun(Substring(s, i)) > 0}
      i    == CHOOSE h \in hits : \A j \in hits : h <= j
  IN  IF hits = {} THEN <<>>
      ELSE SubSeq(s, i + 1, i + DigitRun(Substring(s, i)))

\* The metadata object after the prefix extraction: temperature, humidity
\* and voltage when event.data carries the prefix, no field otherwise.
PrefixMetadata(data) ==
  IF MatchesMetaPrefix(data)
  THEN LET metaPart == Split(data, <<",">>)[1]
           tm == MatchDigitsAfter(metaPart, "T")
           hm == MatchDigitsAfter(metaPart, "H")
           vm == MatchDigitsAfter(metaPart, "V")
       IN  Spread(Spread(
             IF tm # <<>> THEN [temperature |-> parseInt(tm)] ELSE <<>>,
             IF hm # <<>> THEN [humidity |-> parseInt(hm)] ELSE <<>>),
             IF vm # <<>> THEN [voltage |-> parseInt(vm)] ELSE <<>>)
  ELSE <<>>

\* parsedMessage: event.data without the metadata prefix.
ParsedMessage(data) ==
  IF MatchesMetaPrefix(data) THEN Substring(data, IndexOf(data, <<",">>) + 1)
  ELSE data

\* s.split(',').map(point => point.trim()).filter(point => point.length > 0)
Points(s) ==
  LET parts   == Split(s, <<",">>)
      trimmed == [i \in 1..Len(parts) |-> Trim(parts[i])]
  IN  SelectSeq(trimmed, LAMBDA point : Len(point) > 0)

\* A variant of PointTime that puts the last sample one step before the
\* arrival: C5 must tell it from the decoder.
PointTimeOneStepEarly(now, size, index) == now - (size - index) * SampleStepMs

\* The timestamp of the sample at 0-based index in a batch of size points.
PointTime(now, size, index) == now - (size - 1 - index) * SampleStepMs

\* A variant of DataPoint that counts batchIndex from 1: C3 must tell it from
\* the decoder.
DataPointOneBased(points, index, now, own, metadata) ==
  [amplitude |-> parseFloat(points[index + 1]),
   timestamp |-> PointTime(now, Len(points), index),
   metadata  |-> Spread(Spread([source |-> "external", raw |-> TRUE,
                                batchIndex |-> index + 1,
                                batchSize |-> Len(points)], own),
                        metadata)]

\* A variant of DataPoint that records as batchSize the tokens from the
\* sample's own to the last: C13 must tell it from the decoder.
DataPointRemaining(points, index, now, own, metadata) ==
  [amplitude |-> parseFloat(points[index + 1]),
   timestamp |-> PointTime(now, Len(points), index),
   metadata  |-> Spread(Spread([source |-> "external", raw |-> TRUE,
                                batchIndex |-> index,
                                batchSize |-> Len(points) - index], own),
                        metadata)]

\* One sample object: amplitude, timestamp and metadata, the parsed metadata
\* spread last over the fields the decoder sets (own).
DataPoint(points, index, now, own, metadata) ==
  [amplitude |-> parseFloat(points[index + 1]),
   timestamp |-> PointTime(now, Len(points), index),
   metadata  |-> Spread(Spread([source |-> "external", raw |-> TRUE,
                                batchIndex |-> index,
                                batchSize |-> Len(points)], own),
                        metadata)]

\* points.map(...).filter(point => point !== null): a sample for each token
\* parseFloat accepts, in token order (the map returns null for the others).
DataPoints(points, now, own, metadata) ==
  SelectSeq([i \in 1..Len(points) |->
              DataPoint(points, i - 1, now, own, metadata)],
            LAMBDA point : ~isNaN(point.amplitude))

\* The token lists the branch for parsedMessage.startsWith('X') fills:
\* firstWaveformPoints, secondWaveform and thirdWaveform (has2, has3 tell
\* whether the latter two are non-null) and dataPoints; threw is the TypeError
\* of xyParts[1].split when ',Z' is present and parts[0] holds no ',Y'.  With
\* neither marker the tokens go to dataPoints and firstWaveformPoints stays [].
WaveformSplit(parsedMessage) ==
  IF Includes(parsedMessage, <<",", "Z">>)
  THEN LET parts   == Split(parsedMessage, <<",", "Z">>)
           xyParts == Split(parts[1], <<",", "Y">>)
       IN  IF Len(xyParts) < 2
           THEN [threw |-> TRUE, first |-> <<>>, has2 |-> FALSE, second |-> <<>>,
                 has3 |-> FALSE, third |-> <<>>, dataPoints |-> <<>>,
                 dataType |-> "none"]
           ELSE [threw |-> FALSE,
                 first |-> Points(Substring(xyParts[1], 1)),
                 has2 |-> TRUE, second |-> Points(xyParts[2]),
                 has3 |-> TRUE, third |-> Points(parts[2]),
                 dataPoints |-> <<>>, dataType |-> "triple-waveform"]
  ELSE IF Includes(parsedMessage, <<",", "Y">>)
  THEN LET parts == Split(parsedMessage, <<",", "Y">>)
       IN  [threw |-> FALSE,
            first |-> Points(Substring(parts[1], 1)),
            has2 |-> TRUE, second |-> Points(parts[2]),
            has3 |-> FALSE, third |-> <<>>,
            dataPoints |-> <<>>, dataType |-> "dual-waveform"]
  ELSE [threw |-> FALSE, first |-> <<>>, has2 |-> FALSE, second |-> <<>>,
        has3 |-> FALSE, third |-> <<>>,
        dataPoints |-> Points(Substring(parsedMessage, 1)),
        dataType |-> "waveform"]

\* The metadata object after the split has set dataType and the
\* secondWaveform / thirdWaveform flags.
WaveformMetadata(meta, w) ==
  LET m1 == Spread(meta, [dataType |-> w.dataType])
      m2 == IF w.has2 THEN Spread(m1, [secondWaveform |-> TRUE]) ELSE m1
  IN  IF w.has3 THEN Spread(m2, [thirdWaveform |-> TRUE]) ELSE m2

\* A variant of WaveformPoints that puts the samples of Z before those of X
\* and Y: C39 must tell it from the decoder.
WaveformPointsZFirst(w, now, md) ==
  (IF w.has3 THEN DataPoints(w.third, now, [waveformType |-> "Z"], md)
   ELSE <<>>)
  \o DataPoints(w.first, now, [waveformType |-> "X"], md)
  \o (IF w.has2 THEN DataPoints(w.second, now, [waveformType |-> "Y"], md)
      ELSE <<>>)

\* xDataPoints, then yDataPoints when secondWaveform is set, then zDataPoints
\* when thirdWaveform is set, for the token lists w and the metadata md.
WaveformPoints(w, now, md) ==
  DataPoints(w.first, now, [waveformType |-> "X"], md)
  \o (IF w.has2 THEN DataPoints(w.second, now, [waveformType |-> "Y"], md)
      ELSE <<>>)
  \o (IF w.has3 THEN DataPoints(w.third, now, [waveformType |-> "Z"], md)
      ELSE <<>>)

\* allProcessedPoints of the branch for parsedMessage.startsWith('X').
AllProcessedPoints(w, now, meta) ==
  WaveformPoints(w, now, WaveformMetadata(meta, w))

\* A variant of ProcessedDataPoints that tags the samples as a waveform: C25
\* must tell it from the decoder.
ProcessedDataPointsTagged(parsedMessage, now, meta) ==
  DataPoints(Points(parsedMessage), now, [waveformType |-> "X"], meta)

\* processedDataPoints of the branch without the X marker.
ProcessedDataPoints(parsedMessage, now, meta) ==
  DataPoints(Points(parsedMessage), now, <<>>, meta)

(***************************************************************************)
(* nativeWs.onmessage: the handler                                         *)
(*                                                                         *)
(* An event is [data, json, now, binary]: the text of the message, what    *)
(* JSON.parse returns for that text (looked at only when the text starts   *)
(* with '{' or '['), the value of new Date() during the handler, in        *)
(* milliseconds, and whether the message is binary instead of a text.      *)
(* cb is the onEarthquakeData the connection was given: "undefined", or a  *)
(* function that "returns" or "throws".  A call of it is logged as         *)
(* [batch, samples]: batch tells whether it was handed an array.           *)
(***************************************************************************)

\* JSON.parse threw.
SyntaxError == [t |-> "SyntaxError"]

EarthquakeDataType ==
  <<"e", "a", "r", "t", "h", "q", "u", "a", "k", "e", "-", "d", "a", "t", "a">>

\* { ...v }: the own enumerable properties of v.  They are the properties of
\* an object, the code units of a string and the items of an array under
\* their indices "0", "1", ... (up to ten of them here), and none for a
\* number, a boolean, null or undefined.
SpreadValue(v) ==
  LET Keys == <<"0", "1", "2", "3", "4", "5", "6", "7", "8", "9">>
      Indexed(items) ==
        [key \in {Keys[i] : i \in 1..Len(items)} |->
           items[CHOOSE i \in 1..Len(items) : Keys[i] = key]]
  IN  CASE v.t = "object" -> v.props
        [] v.t = "string" -> Indexed([i \in 1..Len(v.s) |-> Str(<<v.s[i]>>)])
        [] v.t = "array" -> Indexed(v.items)
        [] OTHER -> <<>>

\* A variant of NormalizeAmplitude that leaves the amplitude as it came: C10
\* must tell it from the decoder.
KeepAmplitude(obj) == obj

\* processedData: a copy of the object, its amplitude replaced by
\* parseFloat(amplitude) when it is a string that parseFloat accepts.
NormalizeAmplitude(obj) ==
  IF "amplitude" \in DOMAIN obj /\ IsString(obj["amplitude"])
     /\ ~isNaN(parseFloat(obj["amplitude"].s))
  THEN Spread(obj, [amplitude |-> parseFloat(obj["amplitude"].s)])
  ELSE obj

\* if (onEarthquakeData) onEarthquakeData(arg): the calls made.
Invoke(cb, batch, samples) ==
  IF cb = "undefined" THEN <<>> ELSE <<[batch |-> batch, samples |-> samples]>>

\* The branch for a text that starts with '{' or '[' (the inner try/catch).
HandleJson(json, cb) ==
  IF json.t = "SyntaxError" THEN [calls |-> <<>>, caught |-> "parseError"]
  ELSE LET type    == Get(json, "type")
           payload == Get(json, "payload")
       IN  IF IsString(type) /\ type.s = EarthquakeDataType /\ Truthy(payload)
           THEN [calls  |-> Invoke(cb, FALSE,
                                   <<NormalizeAmplitude(SpreadValue(payload))>>),
                 caught |-> IF cb = "throws" THEN "parseError" ELSE "none"]
           ELSE [calls |-> <<>>, caught |-> "none"]

\* if (onEarthquakeData && points.length > 0) onEarthquakeData(points), in
\* the outer try.
DeliverBatch(points, cb) ==
  IF Len(points) > 0
  THEN [calls  |-> Invoke(cb, TRUE, points),
        caught |-> IF cb = "throws" THEN "error" ELSE "none"]
  ELSE [calls |-> <<>>, caught |-> "none"]

\* The branch for parsedMessage.startsWith('X'), w being its token lists.
HandleWaveforms(w, now, metadata, cb) ==
  IF w.threw THEN [calls |-> <<>>, caught |-> "error"]
  ELSE DeliverBatch(AllProcessedPoints(w, now, metadata), cb)

\* The text with a comma, once metadata and parsedMessage are set.
HandleParsed(parsedMessage, metadata, now, cb) ==
  IF StartsWith(parsedMessage, <<"X">>)
  THEN HandleWaveforms(WaveformSplit(parsedMessage), now, metadata, cb)
  ELSE DeliverBatch(ProcessedDataPoints(parsedMessage, now, metadata), cb)

\* The branch for a text with a comma.
HandleLine(data, now, cb) ==
  HandleParsed(ParsedMessage(data), PrefixMetadata(data), now, cb)

\* The branch for a single value.
HandleBare(data, now, cb) ==
  LET Single(amplitude) ==
        IF ~isNaN(amplitude)
        THEN [calls  |-> Invoke(cb, FALSE,
                                <<[amplitude |-> amplitude, timestamp |-> now,
                                   metadata |-> [source |-> "external",
                                                 raw |-> TRUE]]>>),
              caught |-> IF cb = "throws" THEN "error" ELSE "none"]
        ELSE [calls |-> <<>>, caught |-> "none"]
  IN  Single(parseFloat(data))

\* nativeWs.onmessage(event): the calls of onEarthquakeData and the catch
\* clause reached ("parseError": the inner one, "error": the outer one).  The
\* data of a binary message is a Blob or an ArrayBuffer, which has no
\* startsWith: the call raises a TypeError in the outer try.
HandleMessage(event, cb) ==
  IF event.binary THEN [calls |-> <<>>, caught |-> "error"]
  ELSE IF StartsWith(event.data, <<"{">>) \/ StartsWith(event.data, <<"[">>)
  THEN HandleJson(event.json, cb)
  ELSE IF Includes(event.data, <<",">>)
  THEN HandleLine(event.data, event.now, cb)
  ELSE HandleBare(event.data, event.now, cb)

(***************************************************************************)
(* The outbound encoders of the native WebSocket                           *)
(*                                                                         *)
(* Math.random() is a value j / 1024 with j in 0..1023, given by j; the     *)
(* products and sums the encoders make of it are then exact in doubles.  A *)
(* call that draws several values draws them from RandomCycle, from the    *)
(* place its seed names onwards.                                           *)
(***************************************************************************)

DecimalDigits == <<"0", "1", "2", "3", "4", "5", "6", "7", "8", "9">>

\* String(n) for an integer n >= 0, as in `T${temperature}`.
RECURSIVE NatToString(_)
NatToString(n) == IF n < 10 THEN <<DecimalDigits[n + 1]>>
                  ELSE NatToString(n \div 10) \o <<DecimalDigits[(n % 10) + 1]>>

\* The digits s with zeros before them up to the width.
RECURSIVE ZeroPad(_, _)
ZeroPad(s, width) == IF Len(s) >= width THEN s ELSE ZeroPad(<<"0">> \o s, width)

\* The decimal notation of the magnitude m * 10^(-e).
MagnitudeToString(m, e) ==
  IF e = 0 THEN NatToString(m)
  ELSE NatToString(m \div Pow10(e)) \o <<".">>
       \o ZeroPad(NatToString(m % Pow10(e)), e)

\* Number::toString(v): NaN, Infinity, and for a finite number with the k
\* digits m and 10^(n-1) <= |v| < 10^n the digits alone (with n - k zeros)
\* when k <= n <= 21, with a point after the first n when 0 < n <= 21, after
\* "0." and -n zeros when -6 < n <= 0, and in exponent form otherwise; 0 and
\* -0 are "0".
NumberToString(v) ==
  LET k == Len(v.m)
      n == k - v.e
      ds == [i \in 1..k |-> DecimalDigits[v.m[i] + 1]] \o <<>>
      zeros(c) == [i \in 1..c |-> "0"] \o <<>>
      magnitude ==
        IF k <= n /\ n <= 21 THEN ds \o zeros(n - k)
        ELSE IF 0 < n /\ n <= 21
        THEN SubSeq(ds, 1, n) \o <<".">> \o SubSeq(ds, n + 1, k)
        ELSE IF -6 < n /\ n <= 0 THEN <<"0", ".">> \o zeros(0 - n) \o ds
        ELSE <<ds[1]>> \o (IF k > 1 THEN <<".">> \o SubSeq(ds, 2, k) ELSE <<>>)
             \o <<"e">>
             \o (IF n - 1 < 0 THEN <<"-">> \o NatToString(1 - n)
                 ELSE <<"+">> \o NatToString(n - 1))
  IN  IF v.k = "NaN" THEN <<"N", "a", "N">>
      ELSE IF v.k = "Infinity"
      THEN (IF v.s < 0 THEN <<"-">> ELSE <<>>)
           \o <<"I", "n", "f", "i", "n", "i", "t", "y">>
      ELSE IF v.s < 0 /\ v.m # <<0>> THEN <<"-">> \o magnitude
      ELSE magnitude

\* v.toFixed(2) for the double v = x / 1024 >= 0, x an integer: the digits
\* of the integer n for which n / 100 is nearest to the exact value of the
\* double, the larger one if there are two (v = 2.125 gives "2.13"), with a
\* point before the last two.  The values of Math.random() in RandomCycle
\* are multiples of 1/1024 and the scales and offsets of the encoders are
\* multiples of 1/2, so that each product and sum is such a double, exactly;
\* the rounding of a double that is no multiple of 1/1024 (1.005, which is
\* less than 1.005 as a double) is not what this operator gives.
ToFixed2(x) == MagnitudeToString((200 * x + 1024) \div 2048, 2)

\* What Math.random() returns, in 1/1024, in the order of the draws: 0, 0.25,
\* 0.9990234375, 0.50390625, 0.03125.
RandomCycle == <<0, 256, 1023, 516, 32>>

\* The seeds: the places of RandomCycle a call starts to draw from.
Seeds == 0..(Len(RandomCycle) - 1)

\* The draw number i (from 1) of a call with the seed.
Random(seed, i) == RandomCycle[((seed + i - 1) % Len(RandomCycle)) + 1]

\* Math.floor(Math.random() * range) + base
RandomInt(seed, i, range, base) == (Random(seed, i) * range) \div 1024 + base

\* (Math.random() * scale + offset).toFixed(2) for each of the count draws
\* that follow the first skipped ones; the offset is in 1/1024.
RandomPoints(seed, skipped, count, scale, offset) ==
  [i \in 1..count |-> ToFixed2(Random(seed, skipped + i) * scale + offset)]

\* A variant of Join that puts nothing between the points: C14 must tell it
\* from the encoders.
RECURSIVE JoinBare(_)
JoinBare(points) == IF points = <<>> THEN <<>>
                    ELSE points[1] \o JoinBare(Tail(points))

\* dataPoints.join(',')
RECURSIVE Join(_)
Join(points) == IF points = <<>> THEN <<>>
                ELSE IF Len(points) = 1 THEN points[1]
                ELSE points[1] \o <<",">> \o Join(Tail(points))

\* `T${temperature}H${humidity}V${voltage}`
MetaText(temperature, humidity, voltage) ==
  <<"T">> \o NatToString(temperature) \o <<"H">> \o NatToString(humidity)
  \o <<"V">> \o NatToString(voltage)

\* What an encoder hands to nativeWs.send, with the values it was made of:
\* the value sendRawAmplitude was given (NaN for the other encoders), the
\* tokens of each channel (u: without a tag) and the prefix fields.  ok is
\* what the encoder returns, messages the number of its nativeWs.send calls,
\* threw whether it raised an exception instead of returning, json what
\* JSON.parse makes of a JSON text (a JSON text is given by its first
\* character).
Unit(op, text, amplitude, prefixed, meta, u, x, y, z) ==
  [op |-> op, ok |-> TRUE, messages |-> 1, threw |-> FALSE, text |-> text,
   json |-> Undefined, amplitude |-> amplitude, prefixed |-> prefixed,
   meta |-> meta, u |-> u, x |-> x, y |-> y, z |-> z]

NoMeta == [temperature |-> 0, humidity |-> 0, voltage |-> 0]

\* The result of an encoder called without an open connection: it returns
\* false and sends nothing.
NotSent(op) ==
  [op |-> op, ok |-> FALSE, messages |-> 0, threw |-> FALSE, text |-> <<>>,
   json |-> Undefined, amplitude |-> NaN, prefixed |-> FALSE, meta |-> NoMeta,
   u |-> <<>>, x |-> <<>>, y |-> <<>>, z |-> <<>>]

\* The result of an encoder that raises an exception while it makes its
\* unit: it sends nothing and returns nothing.
Thrown(op) == [NotSent(op) EXCEPT !.threw = TRUE]

\* No encoder has been called.
NoSend == NotSent("none")

\* Whether JSON.stringify(v) throws a TypeError: v is or holds a BigInt or an
\* object that refers to itself.
RECURSIVE StringifyThrows(_)
StringifyThrows(v) ==
  CASE v.t \in {"bigint", "cyclic"} -> TRUE
    [] v.t = "object" ->
         \E key \in DOMAIN v.props : StringifyThrows(v.props[key])
    [] v.t = "array" -> \E i \in 1..Len(v.items) : StringifyThrows(v.items[i])
    [] OTHER -> FALSE

\* What JSON.parse makes of JSON.stringify(v): NaN and the infinities have
\* become null and -0 has become 0, a property that is undefined is left out
\* and an item that is undefined has become null.
RECURSIVE JsonCopy(_)
JsonCopy(v) ==
  CASE v.t = "number" -> IF v.k # "finite" THEN Null
                         ELSE IF v.m = <<0>> THEN Finite(1, <<0>>, 0)
                         ELSE v
    [] v.t = "object" ->
         Obj([key \in {k \in DOMAIN v.props : v.props[k].t # "undefined"} |->
                JsonCopy(v.props[key])])
    [] v.t = "array" ->
         Arr([i \in 1..Len(v.items) |->
                IF v.items[i].t = "undefined" THEN Null
                ELSE JsonCopy(v.items[i])])
    [] OTHER -> v

\* sendNativeEarthquakeData(data) on an open connection:
\* nativeWs.send(JSON.stringify({type: 'earthquake-data', payload: data})).
NativeEarthquakeDataUnit(data) ==
  IF StringifyThrows(data) THEN Thrown("sendNativeEarthquakeData")
  ELSE [Unit("sendNativeEarthquakeData", <<"{">>, NaN, FALSE, NoMeta,
             <<>>, <<>>, <<>>, <<>>)
          EXCEPT !.json = JsonCopy(Obj([type |-> Str(EarthquakeDataType),
                                        payload |-> data]))]

\* v.toString() for a number, a string or a boolean.
toString(v) ==
  CASE v.t = "number" -> NumberToString(v)
    [] v.t = "string" -> v.s
    [] v.t = "boolean" -> IF v.b THEN <<"t", "r", "u", "e">>
                          ELSE <<"f", "a", "l", "s", "e">>

\* sendRawAmplitude(amplitude) on an open connection:
\* nativeWs.send(amplitude.toString()), where undefined and null have no
\* toString and the call raises a TypeError.
RawAmplitudeUnit(amplitude) ==
  IF amplitude.t \in {"undefined", "null"} THEN Thrown("sendRawAmplitude")
  ELSE Unit("sendRawAmplitude", toString(amplitude), amplitude, FALSE, NoMeta,
            <<toString(amplitude)>>, <<>>, <<>>, <<>>)

\* sendMultipleAmplitudes(count) on an open connection.
MultipleAmplitudesFrom(dataPoints) ==
  Unit("sendMultipleAmplitudes", Join(dataPoints), NaN, FALSE, NoMeta,
       dataPoints, <<>>, <<>>, <<>>)

MultipleAmplitudesUnit(count, seed) ==
  MultipleAmplitudesFrom(RandomPoints(seed, 0, count, 10, 0))

\* The random prefix fields of the waveform test data.
TestMeta(seed) ==
  [temperature |-> RandomInt(seed, 1, 15, 20),
   humidity    |-> RandomInt(seed, 2, 40, 40),
   voltage     |-> RandomInt(seed, 3, 20, 75)]

\* sendDualWaveformTestData() on an open connection.
DualWaveformFrom(meta, xDataPoints, yDataPoints) ==
  Unit("sendDualWaveformTestData",
       MetaText(meta.temperature, meta.humidity, meta.voltage)
       \o <<",", "X">> \o Join(xDataPoints) \o <<",", "Y">> \o Join(yDataPoints),
       NaN, TRUE, meta, <<>>, xDataPoints, yDataPoints, <<>>)

DualWaveformUnit(seed) ==
  DualWaveformFrom(TestMeta(seed), RandomPoints(seed, 3, 6, 5, 1024),
                   RandomPoints(seed, 9, 4, 3, 512))

\* sendTripleWaveformTestData() on an open connection.
TripleWaveformFrom(meta, xDataPoints, yDataPoints, zDataPoints) ==
  Unit("sendTripleWaveformTestData",
       MetaText(meta.temperature, meta.humidity, meta.voltage)
       \o <<",", "X">> \o Join(xDataPoints) \o <<",", "Y">> \o Join(yDataPoints)
       \o <<",", "Z">> \o Join(zDataPoints),
       NaN, TRUE, meta, <<>>, xDataPoints, yDataPoints, zDataPoints)

TripleWaveformUnit(seed) ==
  TripleWaveformFrom(TestMeta(seed), RandomPoints(seed, 3, 6, 5, 1024),
                     RandomPoints(seed, 9, 4, 3, 512),
                     RandomPoints(seed, 13, 5, 4, 2048))

\* The data sendNativeEarthquakeData is called with: {amplitude: 2.5},
\* {amplitude: "3.5"}, {amplitude: NaN, timestamp: undefined}, undefined, an
\* object that refers to itself, {amplitude: 1n}.
NativeData == {Obj([amplitude |-> Norm(25, 1)]),
               Obj([amplitude |-> Str(<<"3", ".", "5">>)]),
               Obj([amplitude |-> NaN, timestamp |-> Undefined]),
               Undefined,
               Cyclic,
               Obj([amplitude |-> BigInt])}

\* The values sendRawAmplitude is called with: 2.5, 3, 0.05, -1.5, NaN,
\* "3.5", true, undefined, null.
RawAmplitudes == {Norm(25, 1), Norm(3, 0), Norm(5, 2), Norm(-15, 1), NaN,
                  Str(<<"3", ".", "5">>), Bool(TRUE), Undefined, Null}

\* The counts sendMultipleAmplitudes is called with (5 is the default).
Counts == {0, 1, 2, 5}

(***************************************************************************)
(* The messages and callbacks the model feeds the program                  *)
(***************************************************************************)

\* The most ',token' pieces that follow the first token of a text.
MaxTail == 2

\* "", "T25H60V90," and a prefix that lacks the voltage field.
Prefixes == {<<>>,
             <<"T", "2", "5", "H", "6", "0", "V", "9", "0", ",">>,
             <<"T", "5", "H", ",">>}

\* "X1", "X1,2", "X1,Y3", "X", "1.5", "Y1", "abc"
Heads == {<<"X", "1">>, <<"X", "1", ",", "2">>,
          <<"X", "1", ",", "Y", "3">>, <<"X">>, <<"1", ".", "5">>,
          <<"Y", "1">>, <<"a", "b", "c">>}

\* ",2.5", ",, \u30007" (a space and an ideographic space before the 7),
\* ",a", ",Y3", ",Z4"
Tails == {<<",", "2", ".", "5">>, <<",", ",", " ", "U+3000", "7">>, <<",", "a">>,
          <<",", "Y", "3">>, <<",", "Z", "4">>}

RECURSIVE TailSeqs(_)
TailSeqs(n) == IF n = 0 THEN {<<>>}
               ELSE LET shorter == TailSeqs(n - 1)
                    IN  shorter \cup {s \o tl : s \in shorter, tl \in Tails}

\* The texts that are not JSON: prefix, first token, further tokens.
LineTexts == {p \o h \o tl : p \in Prefixes, h \in Heads, tl \in TailSeqs(MaxTail)}

Amp35 == Str(<<"3", ".", "5">>)

\* What JSON.parse returns for the JSON texts fed to the program:
\*   {bad                                                   (SyntaxError)
\*   {}
\*   {"type":"status","payload":{"amplitude":"3.5"}}
\*   {"type":"earthquake-data"}
\*   {"type":"earthquake-data","payload":null}
\*   {"type":"earthquake-data","payload":0}
\*   {"type":"earthquake-data","payload":{}}
\*   {"type":"earthquake-data","payload":{"amplitude":"3.5"}}
\*   {"type":"earthquake-data","payload":{"amplitude":2.5,"timestamp":7}}
\*   {"type":"earthquake-data","payload":{"amplitude":"abc"}}
\*   {"type":"earthquake-data","payload":{"amplitude":null}}
\*   {"type":"earthquake-data","payload":""}
\*   {"type":"earthquake-data","payload":false}
\*   {"type":"earthquake-data","payload":true}
\*   {"type":"earthquake-data","payload":7}
\*   {"type":"earthquake-data","payload":"ab"}
\*   {"type":"earthquake-data","payload":[2.5,"3.5"]}
ObjectTexts ==
  {SyntaxError,
   Obj(<<>>),
   Obj([type |-> Str(<<"s", "t", "a", "t", "u", "s">>),
        payload |-> Obj([amplitude |-> Amp35])]),
   Obj([type |-> Str(EarthquakeDataType)]),
   Obj([type |-> Str(EarthquakeDataType), payload |-> Null]),
   Obj([type |-> Str(EarthquakeDataType), payload |-> Norm(0, 0)]),
   Obj([type |-> Str(EarthquakeDataType), payload |-> Obj(<<>>)]),
   Obj([type |-> Str(EarthquakeDataType),
        payload |-> Obj([amplitude |-> Amp35])]),
   Obj([type |-> Str(EarthquakeDataType),
        payload |-> Obj([amplitude |-> Norm(25, 1), timestamp |-> Norm(7, 0)])]),
   Obj([type |-> Str(EarthquakeDataType),
        payload |-> Obj([amplitude |-> Str(<<"a", "b", "c">>)])]),
   Obj([type |-> Str(EarthquakeDataType),
        payload |-> Obj([amplitude |-> Null])]),
   Obj([type |-> Str(EarthquakeDataType), payload |-> Str(<<>>)]),
   Obj([type |-> Str(EarthquakeDataType), payload |-> Bool(FALSE)]),
   Obj([type |-> Str(EarthquakeDataType), payload |-> Bool(TRUE)]),
   Obj([type |-> Str(EarthquakeDataType), payload |-> Norm(7, 0)]),
   Obj([type |-> Str(EarthquakeDataType), payload |-> Str(<<"a", "b">>)]),
   Obj([type |-> Str(EarthquakeDataType),
        payload |-> Arr(<<Norm(25, 1), Amp35>>)])}

\*   [bad                                                   (SyntaxError)
\*   []
\*   [{"type":"earthquake-data","payload":{"amplitude":"3.5"}}]
ArrayTexts ==
  {SyntaxError,
   Arr(<<>>),
   Arr(<<Obj([type |-> Str(EarthquakeDataType),
              payload |-> Obj([amplitude |-> Amp35])])>>)}

\* The instants new Date() returns.
Times == {1000, 1005}

\* Every message event: the JSON texts are given by their first character
\* and the result of JSON.parse; a binary message has no text.
Events ==
  {[data |-> d, json |-> Undefined, now |-> n, binary |-> FALSE] :
     d \in LineTexts, n \in Times}
  \cup {[data |-> <<"{">>, json |-> j, now |-> n, binary |-> FALSE] :
          j \in ObjectTexts, n \in Times}
  \cup {[data |-> <<"[">>, json |-> j, now |-> n, binary |-> FALSE] :
          j \in ArrayTexts, n \in Times}
  \cup {[data |-> <<>>, json |-> Undefined, now |-> n, binary |-> TRUE] :
          n \in Times}

\* The messages sent to a WebSocket that is not the only one, or that has
\* raised: a binary message, '{bad', the envelope of {"amplitude":"3.5"},
\* '[]', "X1,Y3", "1.5,2.5", "1.5" and "abc".
SocketEvents ==
  {ev \in Events :
     /\ ev.now = 1000
     /\ \/ ev.binary
        \/ ev.json \in {SyntaxError, Arr(<<>>),
                        Obj([type |-> Str(EarthquakeDataType),
                             payload |-> Obj([amplitude |-> Amp35])])}
        \/ ev.data \in {<<"X", "1", ",", "Y", "3">>,
                        <<"1", ".", "5", ",", "2", ".", "5">>,
                        <<"1", ".", "5">>, <<"a", "b", "c">>}}

\* The callbacks a connection is given as onEarthquakeData: none, one that
\* returns, one that throws.
Callbacks == {"undefined", "returns", "throws"}

\* The most WebSockets connectNativeWebSocket makes.
MaxWebSockets == 2

\* The callbacks connectNativeWebSocket is called with: onEarthquakeData, and
\* whether an onError is given.
Handlers == {[onEarthquakeData |-> "undefined", onError |-> FALSE],
             [onEarthquakeData |-> "returns", onError |-> TRUE],
             [onEarthquakeData |-> "throws", onError |-> TRUE]}

(***************************************************************************)
(* The native WebSocket connection                                         *)
(***************************************************************************)

VARIABLES
  webSockets,  \* the WebSockets connectNativeWebSocket has made, in the order
               \* of their making: [readyState, onEarthquakeData, onError,
               \* raised].  onEarthquakeData and onError (whether it was
               \* given) are those of the call that made the WebSocket;
               \* raised tells whether a run of its onmessage has reached a
               \* catch clause since it is open
  nativeWs,    \* 0 for null, or the index in webSockets of the WebSocket
               \* nativeWs refers to
  phase,       \* "idle"; "sent": an encoder has just returned or thrown;
               \* "observed": the log describes the last handler run
  event,       \* the message event the last onmessage run handled
  target,      \* the index of the WebSocket that run belonged to
  after,       \* whether an earlier run of that WebSocket had raised
  callback,    \* the onEarthquakeData that run had
  dataCalls,   \* the calls of onEarthquakeData that run made
  caught,      \* the catch clause that run reached: "none", "parseError", "error"
  errorCalls,  \* the number of calls of onError the last handler run made
  sent         \* the last encoder call and the unit it sent

wsVars == <<webSockets, nativeWs, phase, event, target, after, callback,
           dataCalls, caught, errorCalls, sent>>

NoEvent == [data |-> <<>>, json |-> Undefined, now |-> 0, binary |-> FALSE]

VARIABLES
  socket,       \* 0 for null, or the index in sockets of the socket it refers to
  sockets,      \* the sockets io() has made: [state, listeners], listeners
                \* being the number of 'earthquake-data' listeners on it
  subscribers,  \* the subscribers array
  ioPhase,      \* "idle"; "observed": ioCalls describes the last event;
                \* "sent": sendEarthquakeData has just returned
  ioSocket,     \* the index of the socket the last event arrived on
  ioData,       \* the data of the last 'earthquake-data' event
  ioThrowers,   \* the callbacks that throw when called for that event
  ioCalls,      \* the calls of subscriber callbacks that event caused, in
                \* order: [cb, data, listener]
  ended,        \* for each callback, how its registrations were last ended
                \* with none made since: "unsubscribed", "disconnected";
                \* "again" when it has been registered since an
                \* unsubscribeFromEarthquakeData ended its registrations,
                \* and "no" otherwise
  ioSent        \* what the last sendEarthquakeData returned and emitted

ioVars == <<socket, sockets, subscribers, ioPhase, ioSocket, ioData, ioThrowers,
           ioCalls, ended, ioSent>>

VARIABLES
  svc,       \* serialService: port, reader, readLoopPromise, dataCallback,
             \* errorCallback, keepReading
  dev,       \* the SerialPort: whether it is open, the state of its readable
             \* stream and the error it failed with, the reader that holds
             \* its lock, whether its writable is locked, the chunks its
             \* reads have resolved with
  loops,     \* the runs of _readLoop: loops[i] reads from the i-th reader
  calls,     \* the calls of the methods of the service that await
  result,    \* what the last call that returned resolved to
  received   \* the chunks the read loops have handled, in order

serVars == <<svc, dev, loops, calls, result, received>>

vars == <<wsVars, ioVars, serVars>>

WsInit ==
  /\ webSockets = <<>>
  /\ nativeWs = 0
  /\ phase = "idle"
  /\ event = NoEvent
  /\ target = 0
  /\ after = FALSE
  /\ callback = "undefined"
  /\ dataCalls = <<>>
  /\ caught = "none"
  /\ errorCalls = 0
  /\ sent = NoSend

\* connectNativeWebSocket({onError, onEarthquakeData}): nativeWs is a new
\* WebSocket whose handlers keep the callbacks of this call, or the
\* constructor throws, onError is called if it was given and nativeWs keeps
\* its value.  A WebSocket made by an earlier call is not closed: it stays as
\* it is, out of the reach of the module.
ConnectNativeWebSocket(handlers) ==
  /\ phase = "idle"
  /\ \/ /\ Len(webSockets) < MaxWebSockets
        /\ webSockets' = Append(webSockets,
                                [readyState       |-> "CONNECTING",
                                 onEarthquakeData |-> handlers.onEarthquakeData,
                                 onError          |-> handlers.onError,
                                 raised           |-> FALSE])
        /\ nativeWs' = Len(webSockets) + 1
        /\ UNCHANGED <<phase, errorCalls>>
     \/ /\ phase' = "observed"
        /\ errorCalls' = IF handlers.onError THEN 1 ELSE 0
        /\ UNCHANGED <<webSockets, nativeWs>>
  /\ UNCHANGED <<event, target, after, callback, dataCalls, caught>>
  /\ UNCHANGED sent
  /\ UNCHANGED <<ioVars, serVars>>

\* onopen of the WebSocket i
WsOpen(i) ==
  /\ phase = "idle"
  /\ webSockets[i].readyState = "CONNECTING"
  /\ webSockets' = [webSockets EXCEPT ![i].readyState = "OPEN"]
  /\ UNCHANGED <<nativeWs, phase, event, target, after, callback, dataCalls,
                 caught, errorCalls>>
  /\ UNCHANGED sent
  /\ UNCHANGED <<ioVars, serVars>>

\* onerror of the WebSocket i: if (onError) onError(error).  The handler
\* stays on the WebSocket and runs whenever the error event fires, whatever
\* the readyState, which is for the browser to change.
WsError(i) ==
  /\ phase = "idle"
  /\ phase' = "observed"
  /\ errorCalls' = IF webSockets[i].onError THEN 1 ELSE 0
  /\ UNCHANGED <<webSockets, nativeWs, event, target, after, callback,
                 dataCalls, caught>>
  /\ UNCHANGED sent
  /\ UNCHANGED <<ioVars, serVars>>

\* onclose of the WebSocket i: the connection is closed, by the peer or the
\* network, or after close() was called.
WsClose(i) ==
  /\ phase = "idle"
  /\ webSockets[i].readyState \in {"CONNECTING", "OPEN", "CLOSING"}
  /\ webSockets' = [webSockets EXCEPT ![i].readyState = "CLOSED",
                                      ![i].raised = FALSE]
  /\ UNCHANGED <<nativeWs, phase, event, target, after, callback, dataCalls,
                 caught, errorCalls>>
  /\ UNCHANGED sent
  /\ UNCHANGED <<ioVars, serVars>>

\* disconnectNativeWebSocket: if (nativeWs) { nativeWs.close(); nativeWs =
\* null }.  close() makes a WebSocket that is connecting or open CLOSING and
\* leaves one that is closing or closed as it is.
DisconnectNativeWebSocket ==
  /\ phase = "idle"
  /\ nativeWs # 0
  /\ webSockets' =
       IF webSockets[nativeWs].readyState \in {"CONNECTING", "OPEN"}
       THEN [webSockets EXCEPT ![nativeWs].readyState = "CLOSING",
                               ![nativeWs].raised = FALSE]
       ELSE webSockets
  /\ nativeWs' = 0
  /\ UNCHANGED <<phase, event, target, after, callback, dataCalls, caught,
                 errorCalls>>
  /\ UNCHANGED sent
  /\ UNCHANGED <<ioVars, serVars>>

\* A variant of OnMessage with a handler that closes its connection when it
\* has caught an exception: C32 must tell it from the handler.
OnMessageFatal(i, ev) ==
  /\ phase = "idle"
  /\ webSockets[i].readyState = "OPEN"
  /\ phase' = "observed"
  /\ event' = ev
  /\ target' = i
  /\ after' = webSockets[i].raised
  /\ callback' = webSockets[i].onEarthquakeData
  /\ \E run \in {HandleMessage(ev, webSockets[i].onEarthquakeData)} :
       /\ dataCalls' = run.calls
       /\ caught' = run.caught
       /\ webSockets' =
            IF run.caught = "none" THEN webSockets
            ELSE [webSockets EXCEPT ![i].readyState = "CLOSING"]
  /\ errorCalls' = 0
  /\ UNCHANGED nativeWs
  /\ UNCHANGED sent
  /\ UNCHANGED <<ioVars, serVars>>

\* onmessage(ev) of the WebSocket i, which is open: the handler runs with the
\* onEarthquakeData of the call that made the WebSocket, whether nativeWs
\* still refers to it or not.
OnMessage(i, ev) ==
  /\ phase = "idle"
  /\ webSockets[i].readyState = "OPEN"
  /\ phase' = "observed"
  /\ event' = ev
  /\ target' = i
  /\ after' = webSockets[i].raised
  /\ callback' = webSockets[i].onEarthquakeData
  /\ \E run \in {HandleMessage(ev, webSockets[i].onEarthquakeData)} :
       /\ dataCalls' = run.calls
       /\ caught' = run.caught
       /\ webSockets' = [webSockets EXCEPT ![i].raised = @ \/ run.caught # "none"]
  /\ errorCalls' = 0
  /\ UNCHANGED nativeWs
  /\ UNCHANGED sent
  /\ UNCHANGED <<ioVars, serVars>>

\* nativeWs && nativeWs.readyState === WebSocket.OPEN
IsOpen == nativeWs # 0 /\ webSockets[nativeWs].readyState = "OPEN"

\* The call of an encoder: it returns false without an open connection;
\* with one it makes its unit, which may throw, and hands it to
\* nativeWs.send.
Send(unit) ==
  /\ phase = "idle"
  /\ phase' = "sent"
  /\ sent' = IF IsOpen THEN unit ELSE NotSent(unit.op)
  /\ UNCHANGED <<webSockets, nativeWs, event, target, after, callback,
                 dataCalls, caught, errorCalls>>
  /\ UNCHANGED <<ioVars, serVars>>

SendNativeEarthquakeData(data) == Send(NativeEarthquakeDataUnit(data))

SendRawAmplitude(amplitude) == Send(RawAmplitudeUnit(amplitude))

SendMultipleAmplitudes(count, seed) == Send(MultipleAmplitudesUnit(count, seed))

SendDualWaveformTestData(seed) == Send(DualWaveformUnit(seed))

SendTripleWaveformTestData(seed) == Send(TripleWaveformUnit(seed))

\* The peer sends the unit back on the connection it came by, and the
\* onmessage of that WebSocket handles it.
Echo(now) ==
  /\ phase = "sent"
  /\ sent.ok
  /\ IsOpen
  /\ phase' = "observed"
  /\ event' = [data |-> sent.text, json |-> sent.json, now |-> now,
               binary |-> FALSE]
  /\ target' = nativeWs
  /\ after' = webSockets[nativeWs].raised
  /\ callback' = webSockets[nativeWs].onEarthquakeData
  /\ \E run \in {HandleMessage(event', callback')} :
       /\ dataCalls' = run.calls
       /\ caught' = run.caught
       /\ webSockets' = [webSockets EXCEPT
                           ![nativeWs].raised = @ \/ run.caught # "none"]
  /\ errorCalls' = 0
  /\ UNCHANGED <<nativeWs, sent>>
  /\ UNCHANGED <<ioVars, serVars>>

\* The handler or the encoder has returned and its log is dropped; the
\* program keeps no state from one message to the next.
Forget ==
  /\ phase \in {"observed", "sent"}
  /\ phase' = "idle"
  /\ event' = NoEvent
  /\ target' = 0
  /\ after' = FALSE
  /\ callback' = "undefined"
  /\ dataCalls' = <<>>
  /\ caught' = "none"
  /\ errorCalls' = 0
  /\ sent' = NoSend
  /\ UNCHANGED <<webSockets, nativeWs>>
  /\ UNCHANGED <<ioVars, serVars>>

\* The messages the WebSocket i is sent: any of Events while it is the only
\* WebSocket and no handler run of it has raised, one of SocketEvents after
\* that.
EventsFor(i) ==
  IF Len(webSockets) = 1 /\ ~webSockets[i].raised THEN Events ELSE SocketEvents

\* The arguments the encoders are called with: any of inputs while at most
\* one WebSocket has been made, those of sample once an earlier WebSocket is
\* around.  The encoders read nothing of the module but nativeWs.
ArgumentsOf(inputs, sample) == IF Len(webSockets) <= 1 THEN inputs ELSE sample

WsNext ==
  \/ \E handlers \in Handlers : ConnectNativeWebSocket(handlers)
  \/ \E i \in 1..Len(webSockets) : WsOpen(i)
  \/ \E i \in 1..Len(webSockets) : WsError(i)
  \/ \E i \in 1..Len(webSockets) : WsClose(i)
  \/ DisconnectNativeWebSocket
  \/ \E i \in 1..Len(webSockets) : \E ev \in EventsFor(i) : OnMessage(i, ev)
  \/ \E data \in ArgumentsOf(NativeData, {Obj([amplitude |-> Amp35])}) :
       SendNativeEarthquakeData(data)
  \/ \E amplitude \in ArgumentsOf(RawAmplitudes, {Norm(25, 1), Undefined}) :
       SendRawAmplitude(amplitude)
  \/ \E count \in ArgumentsOf(Counts, {}), seed \in Seeds :
       SendMultipleAmplitudes(count, seed)
  \/ \E seed \in ArgumentsOf(Seeds, {}) : SendDualWaveformTestData(seed)
  \/ \E seed \in ArgumentsOf(Seeds, {}) : SendTripleWaveformTestData(seed)
  \/ \E now \in ArgumentsOf(Times, {1000}) : Echo(now)
  \/ Forget

(***************************************************************************)
(* The Socket.IO connection and the subscribers                            *)
(***************************************************************************)

\* The most sockets connectSocket creates.
MaxSockets == 2

\* The most callbacks the subscribers list holds.
MaxSubscribers == 2

\* The callbacks the caller subscribes.
CallbackIds == {"a", "b"}

\* What the server sends with 'earthquake-data':
\*   {amplitude: 2.5}, {amplitude: "3.5"}, {amplitude: "abc"}, the text "7",
\*   null, and nothing at all (undefined)
IoData == {Obj([amplitude |-> Norm(25, 1)]),
           Obj([amplitude |-> Amp35]),
           Obj([amplitude |-> Str(<<"a", "b", "c">>)]),
           Str(<<"7">>),
           Null,
           Undefined}

\* sendEarthquakeData has not been called.
NoIoSend == [returned |-> FALSE, on |-> 0, data |-> Undefined]

IoInit ==
  /\ socket = 0
  /\ sockets = <<>>
  /\ subscribers = <<>>
  /\ ioPhase = "idle"
  /\ ioSocket = 0
  /\ ioData = Undefined
  /\ ioThrowers = {}
  /\ ioCalls = <<>>
  /\ ended = [cb \in CallbackIds |-> "no"]
  /\ ioSent = NoIoSend

\* The registrations of the callbacks in the subscribers list are ended by a
\* call: ended records by which one.
Ended(by) ==
  [cb \in CallbackIds |->
     IF \E k \in 1..Len(subscribers) : subscribers[k] = cb THEN by
     ELSE ended[cb]]

\* connectSocket: socket = io(socketUrl).
ConnectSocket ==
  /\ ioPhase = "idle"
  /\ Len(sockets) < MaxSockets
  /\ sockets' = Append(sockets, [state |-> "connecting", listeners |-> 0])
  /\ socket' = Len(sockets) + 1
  /\ UNCHANGED <<subscribers, ioPhase, ioSocket, ioData, ioThrowers, ioCalls,
                 ended>>
  /\ UNCHANGED ioSent
  /\ UNCHANGED <<wsVars, serVars>>

\* The 'connect' event of a socket (also after a reconnection).
IoConnected(i) ==
  /\ ioPhase = "idle"
  /\ sockets[i].state \in {"connecting", "disconnected"}
  /\ sockets' = [sockets EXCEPT ![i].state = "connected"]
  /\ UNCHANGED <<socket, subscribers, ioPhase, ioSocket, ioData, ioThrowers,
                 ioCalls, ended>>
  /\ UNCHANGED ioSent
  /\ UNCHANGED <<wsVars, serVars>>

\* The 'disconnect' event of a socket the server or the network closed.
IoDisconnected(i) ==
  /\ ioPhase = "idle"
  /\ sockets[i].state = "connected"
  /\ sockets' = [sockets EXCEPT ![i].state = "disconnected"]
  /\ UNCHANGED <<socket, subscribers, ioPhase, ioSocket, ioData, ioThrowers,
                 ioCalls, ended>>
  /\ UNCHANGED ioSent
  /\ UNCHANGED <<wsVars, serVars>>

\* disconnectSocket
DisconnectSocket ==
  /\ ioPhase = "idle"
  /\ socket # 0
  /\ sockets' = [sockets EXCEPT ![socket].state = "closed"]
  /\ socket' = 0
  /\ ended' = Ended("disconnected")
  /\ UNCHANGED <<subscribers, ioPhase, ioSocket, ioData, ioThrowers, ioCalls>>
  /\ UNCHANGED ioSent
  /\ UNCHANGED <<wsVars, serVars>>

\* subscribeToEarthquakeData(cb) with a socket: cb joins subscribers and the
\* socket gets one more 'earthquake-data' listener.  Without a socket the
\* call returns at once and changes nothing.
SubscribeToEarthquakeData(cb) ==
  /\ ioPhase = "idle"
  /\ socket # 0
  /\ Len(subscribers) < MaxSubscribers
  /\ subscribers' = Append(subscribers, cb)
  /\ sockets' = [sockets EXCEPT ![socket].listeners = @ + 1]
  /\ ended' = [ended EXCEPT ![cb] = IF @ \in {"unsubscribed", "again"}
                                     THEN "again" ELSE "no"]
  /\ UNCHANGED <<socket, ioPhase, ioSocket, ioData, ioThrowers, ioCalls>>
  /\ UNCHANGED ioSent
  /\ UNCHANGED <<wsVars, serVars>>

\* unsubscribeFromEarthquakeData
UnsubscribeFromEarthquakeData ==
  /\ ioPhase = "idle"
  /\ subscribers' = <<>>
  /\ sockets' = IF socket # 0 THEN [sockets EXCEPT ![socket].listeners = 0]
                ELSE sockets
  /\ ended' = Ended("unsubscribed")
  /\ UNCHANGED <<socket, ioPhase, ioSocket, ioData, ioThrowers, ioCalls>>
  /\ UNCHANGED ioSent
  /\ UNCHANGED <<wsVars, serVars>>

\* A variant of ForEachCalls that goes through the subscribers from the last
\* one to the first: C21 must tell it from the code.
RECURSIVE ForEachCallsBackwards(_, _, _, _)
ForEachCallsBackwards(subs, data, throwers, listener) ==
  IF subs = <<>> THEN <<>>
  ELSE <<[cb |-> subs[Len(subs)], data |-> data, listener |-> listener]>>
       \o (IF subs[Len(subs)] \in throwers THEN <<>>
           ELSE ForEachCallsBackwards(SubSeq(subs, 1, Len(subs) - 1), data,
                                      throwers, listener))

\* subscribers.forEach(cb => cb(processedData)) in one listener: the calls
\* made, up to and with the first callback that throws.
RECURSIVE ForEachCalls(_, _, _, _)
ForEachCalls(subs, data, throwers, listener) ==
  IF subs = <<>> THEN <<>>
  ELSE <<[cb |-> Head(subs), data |-> data, listener |-> listener]>>
       \o (IF Head(subs) \in throwers THEN <<>>
           ELSE ForEachCalls(Tail(subs), data, throwers, listener))

\* Whether that forEach ends with an exception.
ForEachThrows(subs, throwers) == \E i \in 1..Len(subs) : subs[i] \in throwers

\* The socket emits 'earthquake-data' to its listeners from number first on,
\* one after the other; each runs the handler of subscribeToEarthquakeData.
\* An exception that leaves a listener leaves the emitter too, which calls
\* no further listener: one thrown by a subscriber, or the TypeError of
\* data.amplitude for data that is null or undefined, which is raised before
\* any subscriber is called.
RECURSIVE EmitCalls(_, _, _, _, _)
EmitCalls(first, listeners, subs, data, throwers) ==
  IF first > listeners \/ data.t \in {"null", "undefined"} THEN <<>>
  ELSE ForEachCalls(subs, NormalizeAmplitude(SpreadValue(data)), throwers, first)
       \o (IF ForEachThrows(subs, throwers) THEN <<>>
           ELSE EmitCalls(first + 1, listeners, subs, data, throwers))

\* An 'earthquake-data' event arrives on a connected socket.
EarthquakeDataEvent(i, data, throwers) ==
  /\ ioPhase = "idle"
  /\ sockets[i].state = "connected"
  /\ ioPhase' = "observed"
  /\ ioSocket' = i
  /\ ioData' = data
  /\ ioThrowers' = throwers
  /\ ioCalls' = EmitCalls(1, sockets[i].listeners, subscribers, data, throwers)
  /\ UNCHANGED <<socket, sockets, subscribers, ended>>
  /\ UNCHANGED ioSent
  /\ UNCHANGED <<wsVars, serVars>>

\* sendEarthquakeData(data): without a socket it returns false; with one it
\* calls socket.emit('earthquake-data', data) and returns true.  ioSent
\* keeps what it returned, the socket it called emit on (0 for none) and
\* the data.
SendEarthquakeData(data) ==
  /\ ioPhase = "idle"
  /\ ioPhase' = "sent"
  /\ ioSent' = IF socket = 0 THEN NoIoSend
               ELSE [returned |-> TRUE, on |-> socket, data |-> data]
  /\ UNCHANGED <<socket, sockets, subscribers, ioSocket, ioData, ioThrowers,
                 ioCalls, ended>>
  /\ UNCHANGED <<wsVars, serVars>>

\* The event has been handled, or sendEarthquakeData has returned, and the
\* log is dropped.
IoForget ==
  /\ ioPhase \in {"observed", "sent"}
  /\ ioPhase' = "idle"
  /\ ioSocket' = 0
  /\ ioData' = Undefined
  /\ ioThrowers' = {}
  /\ ioCalls' = <<>>
  /\ ioSent' = NoIoSend
  /\ UNCHANGED <<socket, sockets, subscribers, ended>>
  /\ UNCHANGED <<wsVars, serVars>>

IoNext ==
  \/ ConnectSocket
  \/ \E i \in 1..Len(sockets) : IoConnected(i)
  \/ \E i \in 1..Len(sockets) : IoDisconnected(i)
  \/ DisconnectSocket
  \/ \E cb \in CallbackIds : SubscribeToEarthquakeData(cb)
  \/ UnsubscribeFromEarthquakeData
  \/ \E i \in 1..Len(sockets), data \in IoData, throwers \in SUBSET CallbackIds :
       EarthquakeDataEvent(i, data, throwers)
  \/ \E data \in IoData : SendEarthquakeData(data)
  \/ IoForget

(***************************************************************************)
(* serialService                                                           *)
(*                                                                         *)
(* The service works on one SerialPort.  A call of an async method runs    *)
(* up to its next await in one step and goes on in another one when the    *)
(* promise it awaits has settled; the steps of the calls, of the read      *)
(* loops and of the device interleave.  A reader is known by its number:   *)
(* reader i is the one the i-th successful getReader() returned, and       *)
(* loops[i] is the run of _readLoop that reads from it.  What a promise of *)
(* the port rejects with and what a callback throws is an Error with a     *)
(* message, which may be empty, or no object at all; the fixed texts of    *)
(* the service are written in English here.  A chunk is a sequence of      *)
(* bytes and a text a sequence of UTF-16 code units, both as numbers.      *)
(***************************************************************************)

\* The most readers port.readable.getReader() hands out: startReading is not
\* called after that.
MaxReaders == 2

\* The most chunks the device delivers.
MaxChunks == 2

\* The most calls of the service that await at a time: no call is made while
\* that many do.
MaxPending == 2

\* An Error with the message.
ErrorOf(message) == [t |-> "object", message |-> message]

\* What the promises of the port reject with and what the callbacks throw.
Errors == {ErrorOf(""), ErrorOf("NetworkError"), Null}

\* The callbacks startReading is given: none, or a function.  Whether a call
\* of the function returns or throws is for the function, and is chosen
\* where the service calls it.
SerialCallbacks == {"null", "function"}

\* The pairs of dataCallback and errorCallback startReading is called with.
Registrations == {<<"null", "null">>, <<"function", "function">>}

\* error.message || fallback: the text, or a TypeError for an error that is
\* null or undefined.  The fallback texts and the fixed error texts of the
\* service are Chinese literals in the source; the model names them in
\* English ("no open port", "close failed", "read error", ...).
ErrorText(error, fallback) ==
  IF error.t \in {"null", "undefined"} THEN [threw |-> TRUE, text |-> ""]
  ELSE [threw |-> FALSE,
        text  |-> IF error.message = "" THEN fallback ELSE error.message]

\* { success: true, error: null }
Success(op) ==
  [op |-> op, settled |-> "fulfilled", success |-> TRUE, error |-> "null",
   port |-> "absent", signals |-> "absent"]

\* { success: false, error: error }
Failure(op, error) ==
  [op |-> op, settled |-> "fulfilled", success |-> FALSE, error |-> error,
   port |-> "absent", signals |-> "absent"]

\* The promise of the call is rejected: an exception left the method.
Rejected(op) ==
  [op |-> op, settled |-> "rejected", success |-> FALSE, error |-> "null",
   port |-> "absent", signals |-> "absent"]

\* catch (error) { return { success: false, error: error.message || fallback } }
Caught(op, error, fallback) ==
  IF ErrorText(error, fallback).threw THEN Rejected(op)
  ELSE Failure(op, ErrorText(error, fallback).text)

NoResult == [Success("none") EXCEPT !.op = "none"]

\* The chunks the device delivers: 2, TAB, NUL, a byte that is not UTF-8,
\* ESC, the three bytes of U+20AC, an overlong NUL, DEL, CR, the four bytes
\* of U+1F600 and the first two bytes of U+20AC; and "1.5\n".
Chunks ==
  <<<<50, 9, 0, 255, 27, 226, 130, 172, 192, 128, 127, 13, 240, 159, 152, 128,
      226, 130>>,
    <<49, 46, 53, 10>>>>

\* The chunk the n-th read of the stream resolves with: the device delivers
\* the chunks of Chunks in turn.
ChunkOfRead(n) == Chunks[((n - 1) % Len(Chunks)) + 1]

\* The code units /[\x00-\x08\x0B\x0C\x0E-\x1F\x7F]/ matches.
ControlChars == (0..8) \cup {11, 12} \cup (14..31) \cup {127}

\* U+FFFD, which the decoder puts for bytes that are not UTF-8, and '?'.
ReplacementChar == 65533

QuestionMark == 63

\* The UTF-16 code units of the code point cp.
CodeUnits(cp) ==
  IF cp < 65536 THEN <<cp>>
  ELSE <<55296 + ((cp - 65536) \div 1024), 56320 + ((cp - 65536) % 1024)>>

\* The UTF-8 decoder of TextDecoder('utf-8', { fatal: false, ignoreBOM: true })
\* on the bytes that are left: cp is the code point so far, needed the
\* number of continuation bytes it waits for, lower..upper the range of the
\* next one.  A byte that cannot go on a sequence ends it with U+FFFD and is
\* decoded again; a sequence the chunk breaks off ends with U+FFFD.
RECURSIVE Utf8Decode(_, _, _, _, _)
Utf8Decode(bytes, cp, needed, lower, upper) ==
  IF bytes = <<>> THEN (IF needed = 0 THEN <<>> ELSE <<ReplacementChar>>)
  ELSE LET b    == Head(bytes)
           rest == Tail(bytes)
       IN  IF needed = 0
           THEN CASE b <= 127 -> <<b>> \o Utf8Decode(rest, 0, 0, 128, 191)
                  [] b \in 194..223 -> Utf8Decode(rest, b % 32, 1, 128, 191)
                  [] b \in 224..239 ->
                       Utf8Decode(rest, b % 16, 2,
                                  IF b = 224 THEN 160 ELSE 128,
                                  IF b = 237 THEN 159 ELSE 191)
                  [] b \in 240..244 ->
                       Utf8Decode(rest, b % 8, 3,
                                  IF b = 240 THEN 144 ELSE 128,
                                  IF b = 244 THEN 143 ELSE 191)
                  [] OTHER -> <<ReplacementChar>>
                              \o Utf8Decode(rest, 0, 0, 128, 191)
           ELSE IF b \notin lower..upper
           THEN <<ReplacementChar>> \o Utf8Decode(bytes, 0, 0, 128, 191)
           ELSE IF needed = 1
           THEN CodeUnits(cp * 64 + (b % 64))
                \o Utf8Decode(rest, 0, 0, 128, 191)
           ELSE Utf8Decode(rest, cp * 64 + (b % 64), needed - 1, 128, 191)

\* textDecoder.decode(value): each chunk is decoded on its own.
TextDecode(value) == Utf8Decode(value, 0, 0, 128, 191)

\* text.replace(/\uFFFD/g, '?')
ReplaceInvalid(text) ==
  [i \in 1..Len(text) |-> IF text[i] = ReplacementChar THEN QuestionMark
                          ELSE text[i]]

\* text.replace(/[\x00-\x08\x0B\x0C\x0E-\x1F\x7F]/g, '')
StripControl(text) == SelectSeq(text, LAMBDA c : c \notin ControlChars)

\* The text dataCallback is called with for a chunk.
ChunkText(value) == StripControl(ReplaceInvalid(TextDecode(value)))

\* No openPort call is running.  A call keeps whether port.open() refused it
\* and the port the service had recorded when it was made.
NoOpen == [pc |-> "none", rejects |-> FALSE, before |-> "null"]

\* No closePort call is running.  A call keeps the loop it awaits, the
\* outcome of the operation it awaits, and what held when it was made: again,
\* a closePort call had returned before; ended, the last read loop had ended
\* by the end of the stream.
NoClose == [pc |-> "none", loop |-> 0, rejects |-> FALSE,
            error |-> ErrorOf(""), again |-> FALSE, ended |-> FALSE]

\* await this.port.close(): the port refuses at the call when it is not open
\* and when one of its streams is locked.
CloseRefused == ~dev.open \/ dev.readLock # 0 \/ dev.writeLock

\* The error of a refused port.close().
CloseError ==
  ErrorOf(IF ~dev.open THEN "InvalidStateError" ELSE "TypeError")

\* port.close() was called and not refused, and has not settled: until it
\* does port.readable and port.writable are null.
Closing == calls.close.pc = "awaitClose" /\ ~calls.close.rejects

\* The number of the calls that await.
Pending ==
  (IF calls.open.pc = "none" THEN 0 ELSE 1)
  + (IF calls.close.pc = "none" THEN 0 ELSE 1)
  + (IF calls.request THEN 1 ELSE 0)
  + (IF calls.set = "none" THEN 0 ELSE 1)
  + (IF calls.get = "none" THEN 0 ELSE 1)
  + calls.send

\* The caller may make a call, of any method: the service takes a call
\* whatever other calls await.  Fewer than MaxPending calls await; of each
\* method but sendData the model keeps one call that awaits.
MayCall == result = NoResult /\ Pending < MaxPending

\* A read loop that has just been started: its first read is pending.
NewLoop == [pc |-> "reading", exit |-> "none", releases |-> 0,
            reason |-> "none", n |-> 0, value |-> <<>>]

\* A read loop that has ended and that nothing refers to any more: the model
\* keeps its place and nothing of it.
Gone == [NewLoop EXCEPT !.pc = "gone"]

\* The read loops when startReading replaces this.readLoopPromise: the
\* promise of a loop that has ended is dropped unless a closePort call
\* awaits it.
Kept ==
  [i \in 1..Len(loops) |->
     IF loops[i].pc \in {"fulfilled", "rejected"}
        /\ ~(calls.close.pc = "awaitLoop" /\ calls.close.loop = i)
     THEN Gone ELSE loops[i]]

SerInit ==
  /\ svc = [port |-> "null", reader |-> 0, readLoopPromise |-> 0,
            dataCallback |-> "null", errorCallback |-> "null",
            keepReading |-> FALSE]
  /\ dev = [open |-> FALSE, stream |-> "readable", error |-> ErrorOf(""),
            readLock |-> 0, writeLock |-> FALSE, read |-> <<>>]
  /\ loops = <<>>
  /\ calls = [open |-> NoOpen, close |-> NoClose, send |-> 0,
              request |-> FALSE, set |-> "none", get |-> "none",
              closed |-> FALSE]
  /\ result = NoResult
  /\ received = <<>>

\* requestPort() up to await navigator.serial.requestPort(), or to its
\* return when the browser has no Web Serial API.
RequestPort(supported) ==
  /\ MayCall
  /\ ~calls.request
  /\ IF ~supported
     THEN /\ result' = [Failure("requestPort", "not supported")
                          EXCEPT !.port = "null"]
          /\ UNCHANGED calls
     ELSE /\ calls' = [calls EXCEPT !.request = TRUE]
          /\ UNCHANGED result
  /\ UNCHANGED <<svc, dev, loops, received>>
  /\ UNCHANGED <<wsVars, ioVars>>

\* navigator.serial.requestPort() settles: the port the user chose is
\* recorded, or the rejection is caught.
RequestPortSettled(fails, error) ==
  /\ result = NoResult
  /\ calls.request
  /\ calls' = [calls EXCEPT !.request = FALSE]
  /\ IF fails
     THEN /\ result' =
               IF ErrorText(error, "request failed").threw
               THEN Rejected("requestPort")
               ELSE [Caught("requestPort", error, "request failed")
                       EXCEPT !.port = "null"]
          /\ UNCHANGED svc
     ELSE /\ result' = [Success("requestPort") EXCEPT !.port = "port"]
          /\ svc' = [svc EXCEPT !.port = "port"]
  /\ UNCHANGED <<dev, loops, received>>
  /\ UNCHANGED <<wsVars, ioVars>>

\* openPort(port, options) up to await port.open(finalOptions): the port is
\* recorded before port.open is called, which refuses a port that is open.
OpenPort ==
  /\ MayCall
  /\ calls.open.pc = "none"
  /\ svc' = [svc EXCEPT !.port = "port"]
  /\ calls' = [calls EXCEPT !.open = [pc |-> "awaitOpen", rejects |-> dev.open,
                                      before |-> svc.port]]
  /\ UNCHANGED <<dev, loops, result, received>>
  /\ UNCHANGED <<wsVars, ioVars>>

\* await port.open() settles: it rejects when the port refused the call and
\* when the device fails, and openPort returns from its catch clause;
\* otherwise the port is open, and openPort calls port.setSignals if the
\* port has it (supported) or returns.
OpenPortOpenSettled(deviceFails, error, supported) ==
  /\ result = NoResult
  /\ calls.open.pc = "awaitOpen"
  /\ IF calls.open.rejects \/ deviceFails
     THEN /\ result' = Caught("openPort",
                              IF calls.open.rejects
                              THEN ErrorOf("InvalidStateError") ELSE error,
                              "open failed")
          /\ calls' = [calls EXCEPT !.open = NoOpen]
          /\ UNCHANGED dev
     ELSE /\ dev' = [dev EXCEPT !.open = TRUE, !.stream = "readable",
                                !.error = ErrorOf(""),
                                !.readLock = 0, !.writeLock = FALSE]
          /\ IF supported
             THEN /\ calls' = [calls EXCEPT !.open.pc = "awaitSignals"]
                  /\ UNCHANGED result
             ELSE /\ calls' = [calls EXCEPT !.open = NoOpen]
                  /\ result' = Success("openPort")
  /\ UNCHANGED <<svc, loops, received>>
  /\ UNCHANGED <<wsVars, ioVars>>

\* await port.setSignals() of openPort settles: a rejection is caught by the
\* inner catch clause, which logs it, and openPort returns success.
OpenPortSignalsSettled ==
  /\ result = NoResult
  /\ calls.open.pc = "awaitSignals"
  /\ calls' = [calls EXCEPT !.open = NoOpen]
  /\ result' = Success("openPort")
  /\ UNCHANGED <<svc, dev, loops, received>>
  /\ UNCHANGED <<wsVars, ioVars>>

\* A variant of GetReaderThrows that hands a reader out while another one
\* holds the lock: C23 must tell it from the port.
GetReaderThrowsWhenClosed == ~dev.open \/ Closing

\* this.port.readable.getReader() throws when the port is not open or is
\* closing (port.readable is null) and when the stream is locked to a reader.
GetReaderThrows == ~dev.open \/ Closing \/ dev.readLock # 0

\* startReading(dataCallback, errorCallback): the callbacks and keepReading
\* are set before getReader() is called; _readLoop runs up to its first
\* await reader.read().
StartReading(dataCb, errorCb) ==
  /\ MayCall
  /\ Len(loops) < MaxReaders
  /\ IF svc.port = "null"
     THEN /\ result' = Failure("startReading", "no open port")
          /\ UNCHANGED <<svc, dev, loops>>
     ELSE IF GetReaderThrows
     THEN /\ svc' = [svc EXCEPT !.dataCallback = dataCb,
                                !.errorCallback = errorCb,
                                !.keepReading = TRUE]
          /\ result' = Caught("startReading", ErrorOf("TypeError"),
                              "start failed")
          /\ UNCHANGED <<dev, loops>>
     ELSE /\ svc' = [svc EXCEPT !.dataCallback = dataCb,
                                !.errorCallback = errorCb,
                                !.keepReading = TRUE,
                                !.reader = Len(loops) + 1,
                                !.readLoopPromise = Len(loops) + 1]
          /\ dev' = [dev EXCEPT !.readLock = Len(loops) + 1]
          /\ loops' = Append(Kept, NewLoop)
          /\ result' = Success("startReading")
  /\ UNCHANGED <<calls, received>>
  /\ UNCHANGED <<wsVars, ioVars>>

\* A variant of Exited in which a loop whose catch clause throws does not
\* get to release its reader: C16 must tell it from the service.
ExitedUnlessThrown(loop, exit, reason) ==
  [pc |-> IF reason # "none" THEN "rejected" ELSE "fulfilled", exit |-> exit,
   releases |-> IF reason # "none" THEN loop.releases ELSE loop.releases + 1,
   reason |-> reason, n |-> 0, value |-> <<>>]

\* The loop after it has left the while statement: finally releases the
\* reader, and the promise is rejected when the catch clause has thrown,
\* with the TypeError of error.message or with what errorCallback threw.
Exited(loop, exit, reason) ==
  [pc |-> IF reason # "none" THEN "rejected" ELSE "fulfilled", exit |-> exit,
   releases |-> loop.releases + 1, reason |-> reason, n |-> 0,
   value |-> <<>>]

\* if (this.errorCallback) this.errorCallback(error.message || 'read error'):
\* what the catch clause of _readLoop throws for the error, a TypeError when
\* there is an errorCallback and the error is no object, what errorCallback
\* throws when it does (throws), nothing otherwise.
CatchThrows(error, throws) ==
  IF svc.errorCallback = "null" THEN "none"
  ELSE IF ErrorText(error, "read error").threw THEN "TypeError"
  ELSE IF throws THEN "thrown"
  ELSE "none"

\* text = ...; if (this.dataCallback) this.dataCallback(text): the chunks
\* handled so far with the chunk of the read numbered n, each with its text
\* and the dataCallback it was handed to, "null" when there was none.
Received(n, value) ==
  Append(received, [n |-> n, text |-> ChunkText(value),
                    to |-> svc.dataCallback])

\* reader.read() of loop i resolves with a chunk: the stream hands the chunk
\* to the pending read; the loop goes on in a later step.
LoopRead(i, value) ==
  /\ result = NoResult
  /\ loops[i].pc = "reading"
  /\ dev.open /\ dev.stream = "readable" /\ dev.readLock = i
  /\ Len(dev.read) < MaxChunks
  /\ dev' = [dev EXCEPT !.read = Append(@, value)]
  /\ loops' = [loops EXCEPT ![i].pc = "resolved",
                            ![i].n = Len(dev.read) + 1,
                            ![i].value = value]
  /\ UNCHANGED <<svc, calls, result, received>>
  /\ UNCHANGED <<wsVars, ioVars>>

\* The loop goes on with the chunk its read resolved with: the chunk is
\* decoded and dataCallback is called with its text.  If it throws (throws,
\* the error), the catch clause, whose errorCallback may throw too
\* (errorThrows), and then finally run; otherwise the loop tests keepReading
\* and reads again or ends.
LoopChunk(i, throws, error, errorThrows) ==
  /\ result = NoResult
  /\ loops[i].pc = "resolved"
  /\ received' = Received(loops[i].n, loops[i].value)
  /\ IF svc.dataCallback # "null" /\ throws
     THEN /\ loops' = [loops EXCEPT ![i] =
                         Exited(@, "callback", CatchThrows(error, errorThrows))]
          /\ dev' = [dev EXCEPT !.readLock = IF @ = i THEN 0 ELSE @]
     ELSE IF svc.keepReading
     THEN /\ loops' = [loops EXCEPT ![i] = NewLoop]
          /\ UNCHANGED dev
     ELSE /\ loops' = [loops EXCEPT ![i] = Exited(@, "cancelled", "none")]
          /\ dev' = [dev EXCEPT !.readLock = IF @ = i THEN 0 ELSE @]
  /\ UNCHANGED <<svc, calls, result>>
  /\ UNCHANGED <<wsVars, ioVars>>

\* reader.read() resolves with done: the loop breaks.
LoopDone(i) ==
  /\ result = NoResult
  /\ loops[i].pc = "reading"
  /\ dev.stream = "closed" /\ dev.readLock = i
  /\ loops' = [loops EXCEPT ![i] = Exited(@, "done", "none")]
  /\ dev' = [dev EXCEPT !.readLock = 0]
  /\ UNCHANGED <<svc, calls, result, received>>
  /\ UNCHANGED <<wsVars, ioVars>>

\* reader.read() rejects with the error the stream failed with: the catch
\* clause runs, whose errorCallback may throw (errorThrows).
LoopError(i, errorThrows) ==
  /\ result = NoResult
  /\ loops[i].pc = "reading"
  /\ dev.stream = "errored" /\ dev.readLock = i
  /\ loops' = [loops EXCEPT ![i] =
                 Exited(@, "error", CatchThrows(dev.error, errorThrows))]
  /\ dev' = [dev EXCEPT !.readLock = 0]
  /\ UNCHANGED <<svc, calls, result, received>>
  /\ UNCHANGED <<wsVars, ioVars>>

\* The device ends the stream of the open port.
StreamEnds ==
  /\ result = NoResult
  /\ dev.open /\ dev.stream = "readable"
  /\ dev' = [dev EXCEPT !.stream = "closed"]
  /\ UNCHANGED <<svc, loops, calls, result, received>>
  /\ UNCHANGED <<wsVars, ioVars>>

\* The stream of the open port fails with the error, which the stream keeps:
\* its reads and the cancel() of its reader reject with it.
StreamErrors(error) ==
  /\ result = NoResult
  /\ dev.open /\ dev.stream = "readable"
  /\ dev' = [dev EXCEPT !.stream = "errored", !.error = error]
  /\ UNCHANGED <<svc, loops, calls, result, received>>
  /\ UNCHANGED <<wsVars, ioVars>>

\* closePort from "if (this.reader)" to its next await.  With a reader it
\* calls reader.cancel(), which rejects with a TypeError for a reader that
\* has released its lock and with the error the stream failed with for a
\* stream that has failed; without one it calls port.close().
CancelOrClose(call) ==
  IF svc.reader # 0
  THEN [call EXCEPT !.pc = "awaitCancel",
                    !.rejects = dev.readLock # svc.reader
                                \/ dev.stream = "errored",
                    !.error = IF dev.readLock # svc.reader
                              THEN ErrorOf("TypeError") ELSE dev.error]
  ELSE [call EXCEPT !.pc = "awaitClose", !.rejects = CloseRefused,
                    !.error = CloseError]

\* The port after that step: reader.cancel() by the reader that holds the
\* lock closes a readable stream.
DevAfterCancel ==
  IF svc.reader # 0 /\ dev.readLock = svc.reader /\ dev.stream = "readable"
  THEN [dev EXCEPT !.stream = "closed"]
  ELSE dev

\* closePort() up to its first await, or to its return without a port.
ClosePortCall ==
  /\ MayCall
  /\ calls.close.pc = "none"
  /\ \E call \in {[NoClose EXCEPT
                     !.again = calls.closed,
                     !.ended = svc.readLoopPromise # 0
                               /\ loops[svc.readLoopPromise].exit = "done"]} :
       IF svc.port = "null"
       THEN /\ result' = Failure("closePort", "no open port")
            /\ calls' = [calls EXCEPT !.close = call, !.closed = TRUE]
            /\ UNCHANGED <<svc, dev>>
       ELSE /\ svc' = [svc EXCEPT !.keepReading = FALSE]
            /\ UNCHANGED result
            /\ IF svc.readLoopPromise # 0
               THEN /\ calls' = [calls EXCEPT !.close =
                                   [call EXCEPT !.pc = "awaitLoop",
                                                !.loop = svc.readLoopPromise]]
                    /\ UNCHANGED dev
               ELSE /\ calls' = [calls EXCEPT !.close = CancelOrClose(call)]
                    /\ dev' = DevAfterCancel
  /\ UNCHANGED <<loops, received>>
  /\ UNCHANGED <<wsVars, ioVars>>

\* await this.readLoopPromise settles: a rejected promise takes closePort to
\* its catch clause, with the TypeError of the loop's catch clause or with
\* what errorCallback threw (the error).
ClosePortLoopSettled(error) ==
  /\ result = NoResult
  /\ calls.close.pc = "awaitLoop"
  /\ loops[calls.close.loop].pc \in {"fulfilled", "rejected"}
  /\ IF loops[calls.close.loop].pc = "rejected"
     THEN /\ result' = Caught("closePort",
                              IF loops[calls.close.loop].reason = "TypeError"
                              THEN ErrorOf("TypeError") ELSE error,
                              "close failed")
          /\ calls' = [calls EXCEPT !.close.pc = "none", !.closed = TRUE]
          /\ UNCHANGED dev
     ELSE /\ calls' = [calls EXCEPT !.close = CancelOrClose(@)]
          /\ dev' = DevAfterCancel
          /\ UNCHANGED result
  /\ UNCHANGED <<svc, loops, received>>
  /\ UNCHANGED <<wsVars, ioVars>>

\* await this.reader.cancel() settles.
ClosePortCancelSettled ==
  /\ result = NoResult
  /\ calls.close.pc = "awaitCancel"
  /\ IF calls.close.rejects
     THEN /\ result' = Caught("closePort", calls.close.error, "close failed")
          /\ calls' = [calls EXCEPT !.close.pc = "none", !.closed = TRUE]
          /\ UNCHANGED svc
     ELSE /\ svc' = [svc EXCEPT !.reader = 0]
          /\ calls' = [calls EXCEPT !.close.pc = "awaitClose",
                                    !.close.rejects = CloseRefused,
                                    !.close.error = CloseError]
          /\ UNCHANGED result
  /\ UNCHANGED <<dev, loops, received>>
  /\ UNCHANGED <<wsVars, ioVars>>

\* await this.port.close() settles and closePort returns: it rejects when
\* the port refused the call and when the device fails.
ClosePortCloseSettled(deviceFails, error) ==
  /\ result = NoResult
  /\ calls.close.pc = "awaitClose"
  /\ calls' = [calls EXCEPT !.close.pc = "none", !.closed = TRUE]
  /\ IF calls.close.rejects \/ deviceFails
     THEN /\ result' = Caught("closePort",
                              IF calls.close.rejects THEN calls.close.error
                              ELSE error,
                              "close failed")
          /\ UNCHANGED <<svc, dev>>
     ELSE /\ result' = Success("closePort")
          /\ dev' = [dev EXCEPT !.open = FALSE]
          /\ svc' = [svc EXCEPT !.port = "null"]
  /\ UNCHANGED <<loops, received>>
  /\ UNCHANGED <<wsVars, ioVars>>

\* A variant of GetWriterThrows that hands a writer out while another one
\* holds the lock: C22 must tell it from the port.
GetWriterThrowsWhenClosed == ~dev.open \/ Closing

\* this.port.writable.getWriter() throws when the port is not open or is
\* closing (port.writable is null) and when the stream is locked to a writer.
GetWriterThrows == ~dev.open \/ Closing \/ dev.writeLock

\* sendData(data) up to await writer.write(dataArray), or to its return when
\* there is no port or no writer to get.  A call may be made while another
\* one awaits its write: calls.send counts the calls that do.
SendDataCall ==
  /\ MayCall
  /\ IF svc.port = "null"
     THEN /\ result' = Failure("sendData", "no open port")
          /\ UNCHANGED <<dev, calls>>
     ELSE IF GetWriterThrows
     THEN /\ result' = Caught("sendData", ErrorOf("TypeError"), "send failed")
          /\ UNCHANGED <<dev, calls>>
     ELSE /\ dev' = [dev EXCEPT !.writeLock = TRUE]
          /\ calls' = [calls EXCEPT !.send = @ + 1]
          /\ UNCHANGED result
  /\ UNCHANGED <<svc, loops, received>>
  /\ UNCHANGED <<wsVars, ioVars>>

\* writer.write settles and sendData returns: writer.releaseLock() runs after
\* a write that succeeded only.
SendDataSettled(writeFails, error) ==
  /\ result = NoResult
  /\ calls.send > 0
  /\ calls' = [calls EXCEPT !.send = @ - 1]
  /\ IF writeFails
     THEN /\ result' = Caught("sendData", error, "send failed")
          /\ UNCHANGED dev
     ELSE /\ result' = Success("sendData")
          /\ dev' = [dev EXCEPT !.writeLock = FALSE]
  /\ UNCHANGED <<svc, loops, received>>
  /\ UNCHANGED <<wsVars, ioVars>>

\* The result of getSignalStates has the signals, or null; the one of
\* setSignalStates has no such field.
SignalResult(op, res) ==
  IF op = "getSignalStates" /\ res.settled = "fulfilled"
  THEN [res EXCEPT !.signals = IF res.success THEN "object" ELSE "null"]
  ELSE res

\* The call of setSignalStates or getSignalStates that awaits: "none",
\* "awaits", or "refused" when the port refused it.
Awaited(op) == IF op = "setSignalStates" THEN calls.set ELSE calls.get

\* The calls with that call of op.
Awaiting(op, call) ==
  IF op = "setSignalStates" THEN [calls EXCEPT !.set = call]
  ELSE [calls EXCEPT !.get = call]

\* setSignalStates and getSignalStates up to their await, or to their return
\* without a port or without the method of the port (supported).  The port
\* refuses the call when it is not open.
SignalCall(op, supported) ==
  /\ MayCall
  /\ Awaited(op) = "none"
  /\ IF svc.port = "null"
     THEN /\ result' = SignalResult(op, Failure(op, "no open port"))
          /\ UNCHANGED calls
     ELSE IF ~supported
     THEN /\ result' = SignalResult(op, Failure(op, "signals not supported"))
          /\ UNCHANGED calls
     ELSE /\ calls' = Awaiting(op, IF dev.open THEN "awaits" ELSE "refused")
          /\ UNCHANGED result
  /\ UNCHANGED <<svc, dev, loops, received>>
  /\ UNCHANGED <<wsVars, ioVars>>

\* The method of the port settles and the call returns: it rejects when the
\* port refused the call and when the device fails.
SignalSettled(op, fails, error) ==
  /\ result = NoResult
  /\ Awaited(op) # "none"
  /\ calls' = Awaiting(op, "none")
  /\ result' = SignalResult(op,
                 IF Awaited(op) = "refused" \/ fails
                 THEN Caught(op, IF Awaited(op) = "refused"
                                 THEN ErrorOf("InvalidStateError") ELSE error,
                             "signals failed")
                 ELSE Success(op))
  /\ UNCHANGED <<svc, dev, loops, received>>
  /\ UNCHANGED <<wsVars, ioVars>>

\* setSignalStates(signals) up to await this.port.setSignals(signalConfig)
SetSignalStates(supported) == SignalCall("setSignalStates", supported)

\* await this.port.setSignals(signalConfig) settles.
SetSignalStatesSettled(fails, error) ==
  SignalSettled("setSignalStates", fails, error)

\* getSignalStates() up to await this.port.getSignals()
GetSignalStates(supported) == SignalCall("getSignalStates", supported)

\* await this.port.getSignals() settles.
GetSignalStatesSettled(fails, error) ==
  SignalSettled("getSignalStates", fails, error)

\* The caller has taken the result of the call that returned: the model
\* keeps a result until then, and the service runs on after it.
Returned ==
  /\ result # NoResult
  /\ result' = NoResult
  /\ calls' = IF calls.close.pc = "none"
              THEN [calls EXCEPT !.close = NoClose] ELSE calls
  /\ UNCHANGED <<svc, dev, loops, received>>
  /\ UNCHANGED <<wsVars, ioVars>>

SerNext ==
  \/ \E supported \in BOOLEAN : RequestPort(supported)
  \/ \E fails \in BOOLEAN, error \in Errors : RequestPortSettled(fails, error)
  \/ OpenPort
  \/ \E deviceFails, supported \in BOOLEAN, error \in Errors :
       OpenPortOpenSettled(deviceFails, error, supported)
  \/ OpenPortSignalsSettled
  \/ \E cbs \in Registrations : StartReading(cbs[1], cbs[2])
  \/ \E i \in 1..Len(loops) : LoopRead(i, ChunkOfRead(Len(dev.read) + 1))
  \/ \E i \in 1..Len(loops), throws, errorThrows \in BOOLEAN, error \in Errors :
       LoopChunk(i, throws, error, errorThrows)
  \/ \E i \in 1..Len(loops) : LoopDone(i)
  \/ \E i \in 1..Len(loops), errorThrows \in BOOLEAN : LoopError(i, errorThrows)
  \/ StreamEnds
  \/ \E error \in Errors : StreamErrors(error)
  \/ ClosePortCall
  \/ \E error \in Errors : ClosePortLoopSettled(error)
  \/ ClosePortCancelSettled
  \/ \E deviceFails \in BOOLEAN, error \in Errors :
       ClosePortCloseSettled(deviceFails, error)
  \/ SendDataCall
  \/ \E writeFails \in BOOLEAN, error \in Errors :
       SendDataSettled(writeFails, error)
  \/ \E supported \in BOOLEAN : SetSignalStates(supported)
  \/ \E fails \in BOOLEAN, error \in Errors : SetSignalStatesSettled(fails, error)
  \/ \E supported \in BOOLEAN : GetSignalStates(supported)
  \/ \E fails \in BOOLEAN, error \in Errors : GetSignalStatesSettled(fails, error)
  \/ Returned

(***************************************************************************)
(* Specifications                                                          *)
(***************************************************************************)

Init == WsInit /\ IoInit /\ SerInit

\* The native WebSocket connection and its message decoder.
Next == WsNext

Spec == Init /\ [][Next]_vars

\* The Socket.IO connection and the subscribers.
NextIO == IoNext

SpecIO == Init /\ [][NextIO]_vars

\* serialService.
NextSerial == SerNext

SpecSerial == Init /\ [][NextSerial]_vars

\* serialService with the fairness of the event loop: a continuation whose
\* awaited promise has settled runs, an operation of the port that was
\* started settles, and a read on a stream that has ended or failed
\* resolves.  The steps wait while a result is being returned to the caller,
\* so the fairness is strong: a step that is possible again and again is
\* taken.  Nothing obliges the caller to call, the device to deliver a chunk,
\* or the stream to end or to fail.
SerialFairness ==
  /\ SF_vars(\E fails \in BOOLEAN, error \in Errors :
               RequestPortSettled(fails, error))
  /\ SF_vars(\E deviceFails, supported \in BOOLEAN, error \in Errors :
               OpenPortOpenSettled(deviceFails, error, supported))
  /\ SF_vars(OpenPortSignalsSettled)
  /\ SF_vars(\E error \in Errors : ClosePortLoopSettled(error))
  /\ SF_vars(ClosePortCancelSettled)
  /\ SF_vars(\E deviceFails \in BOOLEAN, error \in Errors :
               ClosePortCloseSettled(deviceFails, error))
  /\ SF_vars(\E writeFails \in BOOLEAN, error \in Errors :
               SendDataSettled(writeFails, error))
  /\ SF_vars(\E fails \in BOOLEAN, error \in Errors :
               SetSignalStatesSettled(fails, error))
  /\ SF_vars(\E fails \in BOOLEAN, error \in Errors :
               GetSignalStatesSettled(fails, error))
  /\ SF_vars(\E i \in 1..Len(loops), throws, errorThrows \in BOOLEAN,
                 error \in Errors : LoopChunk(i, throws, error, errorThrows))
  /\ SF_vars(\E i \in 1..Len(loops) : LoopDone(i))
  /\ SF_vars(\E i \in 1..Len(loops), errorThrows \in BOOLEAN :
                 LoopError(i, errorThrows))
  /\ SF_vars(Returned)

SpecSerialFair == Init /\ [][NextSerial]_vars /\ SerialFairness

\* The two transports that hand data to a callback of their own, the native
\* WebSocket and the serial port.  They share no state: a behaviour runs one
\* of them while the other one is as the module was loaded.
NextTransports == (SerInit /\ WsNext) \/ (WsInit /\ SerNext)

SpecTransports == Init /\ [][NextTransports]_vars

(***************************************************************************)
(* Properties of the message decoder                                       *)
(*                                                                         *)
(* The frames are described here from their text alone: where the markers  *)
(* stand and what the numerals between the commas denote.                  *)
(***************************************************************************)

\* onmessage has just handled a message for a connection that was given an
\* onEarthquakeData.
Handled == phase = "observed" /\ event.data # <<>> /\ callback # "undefined"

\* The samples onEarthquakeData was handed for the message, in order.
Delivered == IF dataCalls = <<>> THEN <<>> ELSE dataCalls[1].samples

\* The samples of Delivered whose waveformType is tag.
Tagged(tag) ==
  SelectSeq(Delivered,
            LAMBDA p : "waveformType" \in DOMAIN p.metadata
                       /\ p.metadata.waveformType = tag)

\* The samples of Delivered without a waveformType.
Untagged == SelectSeq(Delivered, LAMBDA p : "waveformType" \notin DOMAIN p.metadata)

\* The positions in d of a comma that the character c follows.
MarkerAt(d, c) == {i \in 1..(Len(d) - 1) : d[i] = "," /\ d[i + 1] = c}

\* d is a line of the grammar: a text with a comma that is not JSON.
IsLine(d) == d # <<>> /\ d[1] \notin {"{", "["} /\ \E i \in 1..Len(d) : d[i] = ","

\* d starts with T<digits>H<digits>V<digits> and a comma.
HasPrefix(d) ==
  \E h, v, c \in 1..Len(d) :
    /\ d[1] = "T" /\ d[h] = "H" /\ d[v] = "V" /\ d[c] = ","
    /\ 2 < h /\ h + 1 < v /\ v + 1 < c
    /\ \A i \in (2..(c - 1)) \ {h, v} : d[i] \in Digits

\* The text after the prefix, or all of d when it has none.
Body(d) == IF HasPrefix(d)
           THEN SubSeq(d, 1 + (CHOOSE c \in 1..Len(d) : d[c] = "," /\
                                 \A i \in 1..(c - 1) : d[i] # ","), Len(d))
           ELSE d

\* The integer a short run of digits denotes, given the value so far.
RECURSIVE DigitsValue(_, _)
DigitsValue(s, acc) == IF Len(s) = 0 THEN acc
                       ELSE DigitsValue(Tail(s), 10 * acc + DigitVal(Head(s)))

\* The number the digits of d between the letters from and to denote.
PrefixField(d, from, to) ==
  LET a == CHOOSE i \in 1..Len(d) : d[i] = from /\ \A j \in 1..(i - 1) : d[j] # from
      b == CHOOSE i \in 1..Len(d) : d[i] = to /\ \A j \in 1..(i - 1) : d[j] # to
  IN  Norm(DigitsValue(SubSeq(d, a + 1, b - 1), 0), 0)

\* tok is a decimal numeral: digits, and possibly a point and more digits.
IsNumeral(tok) ==
  /\ tok # <<>>
  /\ \A i \in 1..Len(tok) : tok[i] \in Digits \cup {"."}
  /\ Cardinality({i \in 1..Len(tok) : tok[i] = "."}) <= 1
  /\ tok[1] # "." /\ tok[Len(tok)] # "."

\* The number the numeral tok denotes.
NumeralValue(tok) ==
  LET dots == {i \in 1..Len(tok) : tok[i] = "."}
      frac == IF dots = {} THEN 0 ELSE Len(tok) - (CHOOSE i \in dots : TRUE)
  IN  Norm(DigitsValue(SelectSeq(tok, LAMBDA c : c # "."), 0), frac)

\* The tokens of a channel text: the pieces between its commas, none for the
\* empty text.
TokensOf(text) == IF text = <<>> THEN <<>> ELSE Split(text, <<",">>)

AllNumerals(toks) == \A i \in 1..Len(toks) : IsNumeral(toks[i])

\* b is X<tokens> with no further marker.
IsSingleX(b) ==
  /\ b # <<>> /\ b[1] = "X"
  /\ MarkerAt(b, "Y") = {} /\ MarkerAt(b, "Z") = {}

\* b is X<xs>,Y<ys> with one Y marker and no Z marker.
IsDual(b) ==
  /\ b # <<>> /\ b[1] = "X"
  /\ Cardinality(MarkerAt(b, "Y")) = 1 /\ MarkerAt(b, "Z") = {}

\* b is X<xs>,Y<ys>,Z<zs> with one Y marker and, after it, one Z marker.
IsTriple(b) ==
  /\ b # <<>> /\ b[1] = "X"
  /\ Cardinality(MarkerAt(b, "Y")) = 1 /\ Cardinality(MarkerAt(b, "Z")) = 1
  /\ \A y \in MarkerAt(b, "Y"), z \in MarkerAt(b, "Z") : y < z

YAt(b) == CHOOSE y \in MarkerAt(b, "Y") : TRUE

ZAt(b) == CHOOSE z \in MarkerAt(b, "Z") : TRUE

\* The tokens of the X channel of a frame body.
XTokens(b) ==
  TokensOf(SubSeq(b, 2, IF MarkerAt(b, "Y") # {} THEN YAt(b) - 1
                        ELSE IF MarkerAt(b, "Z") # {} THEN ZAt(b) - 1
                        ELSE Len(b)))

\* The tokens of the Y channel of a dual or triple frame body.
YTokens(b) ==
  TokensOf(SubSeq(b, YAt(b) + 2, IF MarkerAt(b, "Z") # {} THEN ZAt(b) - 1
                                 ELSE Len(b)))

\* The tokens of the Z channel of a triple frame body.
ZTokens(b) == TokensOf(SubSeq(b, ZAt(b) + 2, Len(b)))

\* The samples are those of the numerals toks, in order: each with the
\* numeral's value, its index, the size of the list, and the timestamp that
\* puts the last token at the instant now and each earlier one a step before.
SamplesOf(samples, toks, now) ==
  /\ Len(samples) = Len(toks)
  /\ \A i \in 1..Len(samples) :
       /\ samples[i].amplitude = NumeralValue(toks[i])
       /\ samples[i].metadata.batchIndex = i - 1
       /\ samples[i].metadata.batchSize = Len(toks)
       /\ samples[i].timestamp = now - (Len(toks) - i) * SampleStepMs

\* C1: a comma-separated message that starts with X and has neither a ',Y'
\* nor a ',Z' marker is handed to onEarthquakeData in exactly one call, with
\* one sample tagged X for each numeric token, in token order.
C1_SingleXFrame ==
  (Handled /\ IsLine(event.data) /\ IsSingleX(event.data)
   /\ AllNumerals(XTokens(event.data)))
  => /\ Len(dataCalls) = 1
     /\ Len(Delivered) = Len(XTokens(event.data))
     /\ Tagged("X") = Delivered
     /\ \A i \in 1..Len(Delivered) :
          Delivered[i].amplitude = NumeralValue(XTokens(event.data)[i])

\* C2: a frame T{t}H{h}V{v},X{xs},Y{ys},Z{zs} of numerals yields
\* len(xs)+len(ys)+len(zs) samples, len(xs) of them tagged X, len(ys) tagged Y
\* and len(zs) tagged Z, each with temperature t, humidity h and voltage v.
C2_TripleFrameCounts ==
  (Handled /\ IsLine(event.data) /\ HasPrefix(event.data)
   /\ IsTriple(Body(event.data))
   /\ AllNumerals(XTokens(Body(event.data)))
   /\ AllNumerals(YTokens(Body(event.data)))
   /\ AllNumerals(ZTokens(Body(event.data))))
  => /\ Len(Delivered) = Len(XTokens(Body(event.data)))
                         + Len(YTokens(Body(event.data)))
                         + Len(ZTokens(Body(event.data)))
     /\ Len(Tagged("X")) = Len(XTokens(Body(event.data)))
     /\ Len(Tagged("Y")) = Len(YTokens(Body(event.data)))
     /\ Len(Tagged("Z")) = Len(ZTokens(Body(event.data)))
     /\ \A i \in 1..Len(Delivered) :
          /\ {"temperature", "humidity", "voltage"}
               \subseteq DOMAIN Delivered[i].metadata
          /\ Delivered[i].metadata.temperature
               = PrefixField(event.data, "T", "H")
          /\ Delivered[i].metadata.humidity = PrefixField(event.data, "H", "V")
          /\ Delivered[i].metadata.voltage = PrefixField(event.data, "V", ",")

\* A triple frame with the prefix T25H60V90 and two X tokens was delivered.
C2_Witness ==
  /\ Handled /\ HasPrefix(event.data) /\ IsTriple(Body(event.data))
  /\ AllNumerals(XTokens(Body(event.data)))
  /\ AllNumerals(YTokens(Body(event.data)))
  /\ AllNumerals(ZTokens(Body(event.data)))
  /\ Len(Tagged("X")) = 2 /\ Len(Tagged("Y")) = 1 /\ Len(Tagged("Z")) = 1
  /\ Delivered[1].metadata.voltage = Norm(90, 0)

\* C3: a frame X{xs},Y{ys} of numerals, with a token at least, is delivered as
\* one batch whose X samples are those of xs and whose Y samples are those
\* of ys, each channel with its own batchSize, batchIndex and timestamps that
\* end at the arrival instant.
C3_DualFrame ==
  (Handled /\ IsLine(event.data) /\ IsDual(event.data)
   /\ AllNumerals(XTokens(event.data)) /\ AllNumerals(YTokens(event.data))
   /\ Len(XTokens(event.data)) + Len(YTokens(event.data)) > 0)
  => /\ Len(dataCalls) = 1 /\ dataCalls[1].batch
     /\ Len(Delivered) = Len(Tagged("X")) + Len(Tagged("Y"))
     /\ SamplesOf(Tagged("X"), XTokens(event.data), event.now)
     /\ SamplesOf(Tagged("Y"), YTokens(event.data), event.now)

\* "X1,2,Y3,2.5" was delivered: X is (1, T0 - step), (2, T0) and Y is
\* (3, T0 - step), (2.5, T0).
C3_Witness ==
  /\ Handled
  /\ event.data = <<"X", "1", ",", "2", ",", "Y", "3", ",", "2", ".", "5">>
  /\ Len(Delivered) = 4
  /\ Delivered[1].timestamp = event.now - SampleStepMs
  /\ Delivered[2].timestamp = event.now
  /\ Delivered[3].timestamp = event.now - SampleStepMs
  /\ Delivered[4].amplitude = Norm(25, 1)
  /\ Delivered[4].timestamp = event.now

(***************************************************************************)
(* Properties of the subscribers of the Socket.IO connection               *)
(***************************************************************************)

\* An 'earthquake-data' event has just been handled on the current socket,
\* every subscriber having been registered on that socket.
FanOut ==
  /\ ioPhase = "observed" /\ ioSocket # 0 /\ ioSocket = socket
  /\ Len(subscribers) > 0
  /\ sockets[ioSocket].listeners = Len(subscribers)

\* C4: every subscriber registered before an 'earthquake-data' event is
\* called with the data of that event before the next event is handled, also
\* when a subscriber registered before it throws.
C4_FanOutComplete ==
  FanOut => \A k \in 1..Len(subscribers) :
              \E c \in 1..Len(ioCalls) : ioCalls[c].cb = subscribers[k]

(***************************************************************************)
(* Properties of the timestamps                                            *)
(***************************************************************************)

\* The channel of a delivered sample of a line.
ChannelOf(p) == IF "waveformType" \in DOMAIN p.metadata
                THEN p.metadata.waveformType ELSE "Unlabeled"

\* How many tokens of its channel follow the token of the sample.
FromEnd(p) == p.metadata.batchSize - 1 - p.metadata.batchIndex

\* C5: in each channel of a frame the timestamps do not decrease in delivery
\* order, each is arrival - (batchSize - 1 - batchIndex) * step, and the
\* sample with index batchSize - 1 carries the arrival instant.
C5_TimestampSynthesis ==
  (Handled /\ IsLine(event.data))
  => /\ \A i \in 1..Len(Delivered) :
          /\ Delivered[i].timestamp
               = event.now - FromEnd(Delivered[i]) * SampleStepMs
          /\ Delivered[i].metadata.batchIndex
               = Delivered[i].metadata.batchSize - 1
             => Delivered[i].timestamp = event.now
     /\ \A i, j \in 1..Len(Delivered) :
          (i < j /\ ChannelOf(Delivered[i]) = ChannelOf(Delivered[j]))
          => /\ Delivered[i].timestamp <= Delivered[j].timestamp
             /\ Delivered[i].metadata.batchIndex
                  < Delivered[j].metadata.batchIndex

\* A channel of two samples was delivered, the first a step before the
\* arrival and the second at the arrival.
C5_Witness ==
  /\ Handled /\ IsLine(event.data)
  /\ \E i, j \in 1..Len(Delivered) :
       /\ i < j /\ ChannelOf(Delivered[i]) = ChannelOf(Delivered[j])
       /\ Delivered[i].timestamp = event.now - SampleStepMs
       /\ Delivered[j].timestamp = event.now
       /\ Delivered[j].metadata.batchIndex = 1
       /\ Delivered[j].metadata.batchSize = 2

\* C6: in a frame of several channels, samples with the same index in
\* different channels carry the same timestamp, whatever the lengths of the
\* channels.
C6_SameIndexAligned ==
  (Handled /\ IsLine(event.data))
  => \A i, j \in 1..Len(Delivered) :
       (ChannelOf(Delivered[i]) # ChannelOf(Delivered[j])
        /\ Delivered[i].metadata.batchIndex = Delivered[j].metadata.batchIndex)
       => Delivered[i].timestamp = Delivered[j].timestamp

(***************************************************************************)
(* Properties of the delivered samples                                     *)
(***************************************************************************)

\* C7: no sample handed to onEarthquakeData carries its amplitude as text.
C7_AmplitudeIsNumber ==
  Handled => \A i \in 1..Len(Delivered) :
               "amplitude" \in DOMAIN Delivered[i]
               => ~IsString(Delivered[i].amplitude)

\* d is a message with a single numeral: no comma, not JSON.
IsBareNumber(d) == d # <<>> /\ d[1] \notin {"{", "["} /\ IsNumeral(d)

\* C8: a message with a single numeral is delivered as one sample without a
\* channel tag, its amplitude the numeral's value, its metadata recording
\* batchSize 1 and batchIndex 0.
C8_BareNumber ==
  (Handled /\ IsBareNumber(event.data))
  => /\ Len(dataCalls) = 1 /\ Len(Delivered) = 1
     /\ Delivered[1].amplitude = NumeralValue(event.data)
     /\ "waveformType" \notin DOMAIN Delivered[1].metadata
     /\ {"batchSize", "batchIndex"} \subseteq DOMAIN Delivered[1].metadata
     /\ Delivered[1].metadata.batchSize = 1
     /\ Delivered[1].metadata.batchIndex = 0

\* onmessage has just handled a message that starts with '{' or '['.
HandledJson ==
  /\ phase = "observed" /\ event.data # <<>> /\ event.data[1] \in {"{", "["}

\* C9: a message that starts with '{' or '[' and is not valid JSON is reported
\* to onError, and onEarthquakeData is not called for it.
C9_MalformedJsonReported ==
  (HandledJson /\ event.json = SyntaxError)
  => errorCalls >= 1 /\ dataCalls = <<>>

\* The envelope has a payload: the property is there and holds none of null,
\* false, zero and the empty text.
HasPayload(json) ==
  /\ "payload" \in DOMAIN json.props
  /\ LET payload == json.props.payload
     IN  ~ \/ payload.t = "null"
           \/ payload.t = "boolean" /\ ~payload.b
           \/ payload.t = "number" /\ payload.k = "finite" /\ payload.m = <<0>>
           \/ payload.t = "string" /\ payload.s = <<>>

\* json is an object of type "earthquake-data" with a payload.
IsEarthquakeEnvelope(json) ==
  /\ json.t = "object"
  /\ "type" \in DOMAIN json.props
  /\ json.props.type = Str(EarthquakeDataType)
  /\ HasPayload(json)

\* The parts of a payload that is not an object: the characters of a text,
\* the items of a list, and none for a number or a boolean.
PartsOf(payload) ==
  CASE payload.t = "string" -> [i \in 1..Len(payload.s) |-> Str(<<payload.s[i]>>)]
    [] payload.t = "array" -> payload.items
    [] OTHER -> <<>>

\* The sample is the payload, a numeral given as text replaced by its value;
\* the sample of a payload that is not an object has its parts under their
\* indices, counted from "0".
SampleOfPayload(sample, payload) ==
  IF payload.t = "object"
  THEN /\ DOMAIN sample = DOMAIN payload.props
       /\ \A key \in DOMAIN sample :
            IF key = "amplitude" /\ IsString(payload.props[key])
               /\ IsNumeral(payload.props[key].s)
            THEN sample[key] = NumeralValue(payload.props[key].s)
            ELSE sample[key] = payload.props[key]
  ELSE /\ DOMAIN sample = {DecimalDigits[i] : i \in 1..Len(PartsOf(payload))}
       /\ \A i \in 1..Len(PartsOf(payload)) :
            sample[DecimalDigits[i]] = PartsOf(payload)[i]

\* C10: a JSON message is forwarded to onEarthquakeData if and only if it is
\* an object of type "earthquake-data" with a payload; it is then delivered
\* once, as a single sample that is the payload with a numeral amplitude
\* converted to a number.  Any other JSON message causes no call of
\* onEarthquakeData, no exception and no call of onError.
C10_EnvelopeFilter ==
  (HandledJson /\ callback # "undefined" /\ event.json # SyntaxError)
  => /\ errorCalls = 0
     /\ IF IsEarthquakeEnvelope(event.json)
        THEN /\ Len(dataCalls) = 1 /\ ~dataCalls[1].batch
             /\ Len(Delivered) = 1
             /\ SampleOfPayload(Delivered[1], event.json.props.payload)
        ELSE dataCalls = <<>> /\ caught = "none"

\* The envelope with the payload {"amplitude":"3.5"} was delivered with the
\* amplitude 3.5.
C10_Witness ==
  /\ HandledJson /\ callback # "undefined"
  /\ event.json # SyntaxError /\ IsEarthquakeEnvelope(event.json)
  /\ event.json.props.payload.t = "object"
  /\ event.json.props.payload.props = [amplitude |-> Amp35]
  /\ Len(Delivered) = 1
  /\ Delivered[1] = [amplitude |-> Norm(35, 1)]

(***************************************************************************)
(* Properties of the frames with tokens that are not numbers               *)
(***************************************************************************)

\* tok starts with a number: after white space, a digit that at most a sign
\* and a point precede.
StartsNumber(tok) ==
  \E i \in 1..Len(tok) :
    /\ tok[i] \in Digits
    /\ \E a \in 0..(i - 1) :
         /\ \A j \in 1..a : tok[j] \in WhiteSpace
         /\ \/ a = i - 1
            \/ a = i - 2 /\ tok[i - 1] \in {"+", "-", "."}
            \/ a = i - 3 /\ tok[i - 2] \in {"+", "-"} /\ tok[i - 1] = "."

\* tok without a channel marker at its start.
Unmarked(tok) ==
  IF tok # <<>> /\ tok[1] \in {"X", "Y", "Z"} THEN SubSeq(tok, 2, Len(tok))
  ELSE tok

\* The pieces between the commas of the text after the prefix, the channel
\* markers of a frame that starts with X taken off.
PiecesOf(body, parts) ==
  IF body # <<>> /\ body[1] = "X"
  THEN [i \in 1..Len(parts) |-> Unmarked(parts[i])]
  ELSE parts

PiecesOfBody(body) == PiecesOf(body, Split(body, <<",">>))

Pieces(d) == PiecesOfBody(Body(d))

\* None of the pieces starts with a number.
NoneStartsNumber(pieces) ==
  \A i \in 1..Len(pieces) : ~StartsNumber(pieces[i])

\* d is not JSON and none of its pieces starts with a number.
NoNumericToken(d) ==
  /\ d # <<>> /\ d[1] \notin {"{", "["}
  /\ NoneStartsNumber(Pieces(d))

\* C11: a message none of whose tokens is a number causes no call of
\* onEarthquakeData and no call of onError.
C11_NoDataResult ==
  Handled =>
    \/ dataCalls = <<>> /\ errorCalls = 0
    \/ ~NoNumericToken(event.data)

\* A comma-separated frame without a numeric token was handled and nothing
\* was delivered.
C11_Witness ==
  /\ Handled /\ NoNumericToken(event.data) /\ IsLine(event.data)
  /\ Len(Pieces(event.data)) >= 2
  /\ dataCalls = <<>> /\ errorCalls = 0 /\ caught = "none"

\* tok is a word: not empty, without a digit and without white space.
IsWord(tok) ==
  /\ tok # <<>>
  /\ \A i \in 1..Len(tok) : tok[i] \notin Digits \cup WhiteSpace

\* The channels of a frame body in one of the four layouts, each with its
\* tag and its tokens.
ChannelsOf(b) ==
  IF IsTriple(b)
  THEN {[tag |-> "X", toks |-> XTokens(b)], [tag |-> "Y", toks |-> YTokens(b)],
        [tag |-> "Z", toks |-> ZTokens(b)]}
  ELSE IF IsDual(b)
  THEN {[tag |-> "X", toks |-> XTokens(b)], [tag |-> "Y", toks |-> YTokens(b)]}
  ELSE IF IsSingleX(b) THEN {[tag |-> "X", toks |-> XTokens(b)]}
  ELSE {[tag |-> "Unlabeled", toks |-> TokensOf(b)]}

\* b is in one of the four layouts.
IsLayout(b) ==
  b # <<>> /\ (b[1] = "X" => IsTriple(b) \/ IsDual(b) \/ IsSingleX(b))

\* The delivered samples of the channel with the tag.
ChannelSamples(tag) == IF tag = "Unlabeled" THEN Untagged ELSE Tagged(tag)

\* The samples are those of the numerals among toks: one for each, with the
\* value, the index and the timestamp of its place among all of toks.
NumeralsDelivered(samples, toks, now) ==
  /\ Len(samples) = Cardinality({i \in 1..Len(toks) : IsNumeral(toks[i])})
  /\ \A i \in 1..Len(toks) :
       IsNumeral(toks[i])
       => \E k \in 1..Len(samples) :
            /\ samples[k].amplitude = NumeralValue(toks[i])
            /\ samples[k].metadata.batchIndex = i - 1
            /\ samples[k].metadata.batchSize = Len(toks)
            /\ samples[k].timestamp = now - (Len(toks) - i) * SampleStepMs

\* A frame in one of the four layouts whose tokens are numerals and words,
\* with a word at least, was handled.
FrameWithWord ==
  /\ Handled /\ IsLine(event.data) /\ IsLayout(Body(event.data))
  /\ \A ch \in ChannelsOf(Body(event.data)) :
       \A i \in 1..Len(ch.toks) : IsNumeral(ch.toks[i]) \/ IsWord(ch.toks[i])
  /\ \E ch \in ChannelsOf(Body(event.data)) :
       \E i \in 1..Len(ch.toks) : IsWord(ch.toks[i])

\* C12: in every layout (unlabeled, X, X+Y, X+Y+Z, with or without prefix) a
\* token that is not a number is dropped and every numeric token of the
\* frame is delivered with the batchIndex, batchSize and timestamp of its
\* place; onError is not called.
C12_TokenDropped ==
  FrameWithWord
  => /\ errorCalls = 0
     /\ \A ch \in ChannelsOf(Body(event.data)) :
          NumeralsDelivered(ChannelSamples(ch.tag), ch.toks, event.now)

\* The metadata-prefix fields of a delivered sample of a line.
PrefixFields(p) ==
  [key \in {"temperature", "humidity", "voltage"} \cap DOMAIN p.metadata
     |-> p.metadata[key]]

\* C13: every sample delivered from a comma-separated frame has
\* 0 <= batchIndex < batchSize; the samples of a channel share their
\* batchSize, and the samples of a frame their temperature, humidity and
\* voltage fields.
C13_BatchMetadata ==
  (Handled /\ IsLine(event.data))
  => /\ \A i \in 1..Len(Delivered) :
          /\ 0 <= Delivered[i].metadata.batchIndex
          /\ Delivered[i].metadata.batchIndex < Delivered[i].metadata.batchSize
     /\ \A i, j \in 1..Len(Delivered) :
          /\ ChannelOf(Delivered[i]) = ChannelOf(Delivered[j])
             => Delivered[i].metadata.batchSize = Delivered[j].metadata.batchSize
          /\ PrefixFields(Delivered[i]) = PrefixFields(Delivered[j])

\* A frame with a prefix was delivered with two samples in its X channel and
\* one in its Y channel, all with the voltage of the prefix.
C13_Witness ==
  /\ Handled /\ IsLine(event.data) /\ HasPrefix(event.data)
  /\ Len(Tagged("X")) = 2 /\ Len(Tagged("Y")) = 1
  /\ Tagged("X")[1].metadata.batchSize = 2
  /\ Tagged("X")[2].metadata.batchIndex = 1
  /\ Tagged("Y")[1].metadata.batchSize = 1
  /\ \A i \in 1..Len(Delivered) :
       DOMAIN PrefixFields(Delivered[i]) = {"temperature", "humidity", "voltage"}

(***************************************************************************)
(* Properties of the encoders                                              *)
(***************************************************************************)

\* tok is a numeral that a minus sign may precede.
IsSignedNumeral(tok) ==
  IsNumeral(tok) \/ (Len(tok) > 1 /\ tok[1] = "-" /\ IsNumeral(Tail(tok)))

\* The number the signed numeral denotes.
SignedValue(tok) ==
  IF tok[1] = "-"
  THEN [NumeralValue(Tail(tok)) EXCEPT !.s = -1]
  ELSE NumeralValue(tok)

\* The samples carry the values of the numerals among toks, in their order
\* and number.
RoundTrip(samples, toks) ==
  /\ Len(samples) = Len(SelectSeq(toks, IsSignedNumeral))
  /\ \A k \in 1..Len(samples) :
       samples[k].amplitude = SignedValue(SelectSeq(toks, IsSignedNumeral)[k])

\* The unit one of the text encoders sent has come back and onmessage has
\* handled it for a connection that was given an onEarthquakeData.
EchoHandled ==
  /\ phase = "observed" /\ sent.ok /\ callback # "undefined"
  /\ sent.op # "sendNativeEarthquakeData"

\* C14: a unit made by sendRawAmplitude, sendMultipleAmplitudes,
\* sendDualWaveformTestData or sendTripleWaveformTestData and fed to
\* onmessage yields the values it was made of, in their order and number,
\* with their channel tags and their T/H/V fields; what has no numeric form
\* (NaN) yields no sample.
C14_RoundTrip ==
  EchoHandled
  => /\ RoundTrip(Untagged, sent.u)
     /\ RoundTrip(Tagged("X"), sent.x)
     /\ RoundTrip(Tagged("Y"), sent.y)
     /\ RoundTrip(Tagged("Z"), sent.z)
     /\ Len(Delivered) = Len(Untagged) + Len(Tagged("X")) + Len(Tagged("Y"))
                         + Len(Tagged("Z"))
     /\ \A i \in 1..Len(Delivered) :
          PrefixFields(Delivered[i])
            = IF sent.prefixed
              THEN [key \in DOMAIN sent.meta |-> Norm(sent.meta[key], 0)]
              ELSE <<>>
     /\ (sent.op = "sendRawAmplitude" /\ IsNumber(sent.amplitude))
        => IF sent.amplitude.k = "NaN" THEN Delivered = <<>>
           ELSE Len(Delivered) = 1 /\ Delivered[1].amplitude = sent.amplitude

\* The unit of sendTripleWaveformTestData came back: 6 X, 4 Y and 5 Z samples
\* with the prefix fields, the first X sample 3.52.
C14_Witness ==
  /\ EchoHandled /\ sent.op = "sendTripleWaveformTestData"
  /\ Len(Tagged("X")) = 6 /\ Len(Tagged("Y")) = 4 /\ Len(Tagged("Z")) = 5
  /\ Delivered[1].amplitude = Norm(352, 2)
  /\ Delivered[1].metadata.temperature = Norm(20, 0)
  /\ Delivered[15].metadata.voltage = Norm(94, 0)


(***************************************************************************)
(* serialService: closePort, the read loop and the results                 *)
(***************************************************************************)

\* A closePort call has returned and the caller has its result.
ClosePortReturned == result.op = "closePort" /\ calls.close.pc = "none"

\* C15: a closePort call made after another closePort call has returned, or
\* after the read loop has ended by the end of the stream, reports no error,
\* and no reader is released a second time.
C15_CancelIdempotent ==
  (ClosePortReturned /\ (calls.close.again \/ calls.close.ended)) =>
    /\ result.success
    /\ \A i \in 1..Len(loops) : loops[i].releases <= 1

\* The read loops that have left the while statement.
Settled(i) == loops[i].pc \in {"fulfilled", "rejected"}

\* C16: a read loop that is reading holds the lock of its reader and has not
\* released it; a read loop that has ended, by whichever exit, has released it
\* exactly once, and no reader that has been released holds the lock.
C16_ReleasedOnce ==
  \A i \in 1..Len(loops) :
    /\ loops[i].pc \in {"reading", "resolved"}
       => loops[i].releases = 0 /\ dev.readLock = i
    /\ Settled(i) => loops[i].releases = 1 /\ dev.readLock # i

\* A read loop has ended in its catch clause, which threw (errorCallback
\* threw, or the error had no message to read), and its reader is released.
C16_Witness ==
  \E i \in 1..Len(loops) :
    /\ loops[i].pc = "rejected"
    /\ loops[i].exit \in {"error", "callback"}
    /\ loops[i].releases = 1

\* C17: a dataCallback that throws for a chunk never ends the read loop: a
\* read loop ends by the end of the stream, by a read error or by the
\* cancellation only.
C17_CallbackFailureLocal ==
  \A i \in 1..Len(loops) :
    Settled(i) => loops[i].exit \in {"done", "error", "cancelled"}

\* One of openPort, closePort, startReading, sendData, setSignalStates and
\* getSignalStates has settled.
AdapterCallSettled ==
  result.op \in {"openPort", "closePort", "startReading", "sendData",
                 "setSignalStates", "getSignalStates"}

\* C18: a call of openPort, closePort, startReading, sendData,
\* setSignalStates or getSignalStates never rejects, whatever the port, the
\* reader or the writer does: it resolves to a result with a boolean success
\* flag, no error when it succeeded and an error text that is not empty
\* when it failed.
C18_ResultShape ==
  AdapterCallSettled =>
    /\ result.settled = "fulfilled"
    /\ result.success \in BOOLEAN
    /\ result.success => result.error = "null"
    /\ ~result.success => result.error \notin {"", "null"}


(***************************************************************************)
(* Socket.IO: the end of a registration                                    *)
(***************************************************************************)

\* The callbacks the last 'earthquake-data' event has invoked.
Invoked == {ioCalls[n].cb : n \in 1..Len(ioCalls)}

\* C19: after disconnectSocket no callback registered before it (and not
\* registered again since) is in the subscribers list, and none is invoked
\* by an event on a socket connectSocket has made later.
C19_SubscribersEndWithSocket ==
  /\ \A k \in 1..Len(subscribers) : ended[subscribers[k]] # "disconnected"
  /\ \A cb \in Invoked : ended[cb] # "disconnected"

\* unsubscribeFromEarthquakeData has been called: the subscribers are those
\* registered since.
Unsubscribed == \E cb \in CallbackIds : ended[cb] \in {"unsubscribed", "again"}

\* C20: after unsubscribeFromEarthquakeData the subscribers list holds no
\* callback registered before the call, no such callback is invoked for a
\* later event, and the callbacks registered since receive the later events:
\* an event with an object as data, on the socket they were all registered
\* on, invokes each of them.
C20_UnregisterAll ==
  /\ \A k \in 1..Len(subscribers) : ended[subscribers[k]] # "unsubscribed"
  /\ \A cb \in Invoked : ended[cb] # "unsubscribed"
  /\ (FanOut /\ Unsubscribed /\ ioData.t = "object")
     => \A k \in 1..Len(subscribers) : subscribers[k] \in Invoked


(***************************************************************************)
(* Socket.IO: the order of the fan-out                                     *)
(***************************************************************************)

\* The calls one listener of the socket made for the last event.
CallsOfListener(l) == SelectSeq(ioCalls, LAMBDA c : c.listener = l)

\* made go through the subscribers list from its first entry on, one call
\* for each entry.
InRegistrationOrder(made) ==
  /\ Len(made) <= Len(subscribers)
  /\ \A n \in 1..Len(made) : made[n].cb = subscribers[n]

\* C21: within the fan-out of one event, every listener invokes the
\* subscriber callbacks in the order of their registration, and the listeners
\* run one after the other.
C21_RegistrationOrder ==
  ioPhase = "observed" =>
    /\ \A l \in 1..sockets[ioSocket].listeners :
         InRegistrationOrder(CallsOfListener(l))
    /\ \A m, n \in 1..Len(ioCalls) :
         m < n => ioCalls[m].listener <= ioCalls[n].listener

\* An event has been fanned out to two different callbacks, none of which
\* threw.
C21_Witness ==
  /\ ioPhase = "observed"
  /\ Len(subscribers) = 2 /\ subscribers[1] # subscribers[2]
  /\ ioThrowers = {}
  /\ Len(ioCalls) >= 2
  /\ ioCalls[1].cb = subscribers[1] /\ ioCalls[2].cb = subscribers[2]


(***************************************************************************)
(* serialService: writes                                                   *)
(***************************************************************************)

\* At most one sendData call holds the writer of the port, and it holds the
\* lock of the writable stream.
OneWriter == calls.send <= 1 /\ (calls.send = 1 => dev.writeLock)

\* A step of a sendData call: it takes the writer, or it returns.
SendDataStep ==
  \/ calls'.send # calls.send
  \/ result = NoResult /\ result'.op = "sendData"

\* The step leaves the read loops, what they delivered, the fields of the
\* service and the readable stream as they were.
ReadLoopUnaffected ==
  /\ UNCHANGED <<svc, loops, received>>
  /\ dev'.open = dev.open
  /\ dev'.stream = dev.stream
  /\ dev'.readLock = dev.readLock
  /\ dev'.read = dev.read

\* C22: at any moment at most one sendData call holds the writer, so that
\* the bytes of two calls that overlap are never interleaved, and no step of
\* a sendData call changes anything of the read loop.
C22_WriteAtomicity ==
  []OneWriter /\ [][SendDataStep => ReadLoopUnaffected]_vars

\* A second sendData call has returned a failure while the first one awaits
\* its write and a read loop is reading.
C22_Witness ==
  /\ calls.send = 1
  /\ result.op = "sendData" /\ ~result.success
  /\ \E i \in 1..Len(loops) : loops[i].pc = "reading"


(***************************************************************************)
(* serialService: the read loops that run                                  *)
(***************************************************************************)

\* The read loops that have not left their while statement.
Reading == {i \in 1..Len(loops) : loops[i].pc \in {"reading", "resolved"}}


(***************************************************************************)
(* Native WebSocket: sending without an open connection                    *)
(***************************************************************************)

\* One of the send operations has been called, and has returned or thrown.
SendReturned == sent.op # "none"

\* There is a connection and its state is OPEN.
HasOpenConnection ==
  nativeWs # 0 /\ webSockets[nativeWs].readyState = "OPEN"

\* C24: a send operation of the native WebSocket returns true and hands
\* exactly one message to nativeWs.send when there is a connection whose
\* state is OPEN; otherwise it returns false and hands over nothing.
C24_SendNeedsOpen ==
  SendReturned =>
    IF HasOpenConnection THEN sent.ok /\ sent.messages = 1
    ELSE ~sent.ok /\ sent.messages = 0 /\ sent.text = <<>>


(***************************************************************************)
(* Properties of the frames without a channel marker                       *)
(***************************************************************************)

\* The text after the prefix does not begin with X.
NoMarker(d) == IsLine(d) /\ (Body(d) = <<>> \/ Body(d)[1] # "X")

\* The tokens of the text that are not empty once the white space around
\* them is taken off, in order.
WithoutSpace(toks) == [i \in 1..Len(toks) |-> Trim(toks[i])]

NonEmptyTokens(text) ==
  SelectSeq(WithoutSpace(TokensOf(text)), LAMBDA tok : Len(tok) > 0)

\* Every sample of the one call is without a channel tag, and the samples
\* are those of the numerals among toks, each with its place among toks and
\* the number of toks as batchSize.
OneUnlabeledChannel(toks) ==
  /\ Len(dataCalls) <= 1
  /\ Len(Untagged) = Len(Delivered)
  /\ NumeralsDelivered(Delivered, toks, event.now)

\* C25: a comma-separated message whose text after the prefix does not begin
\* with X, a stray Y or Z marker or not, is decoded as one channel without a
\* tag: every numeric token is delivered, with batchSize the number of the
\* tokens that are not empty.
C25_NoMarker ==
  (Handled /\ NoMarker(event.data))
  => OneUnlabeledChannel(NonEmptyTokens(Body(event.data)))

\* "1.5,, \u30007,Y3" was handled: 1.5 and 7 are delivered without a tag with
\* batchSize 3, the empty token is not counted and Y3 is dropped.
C25_Witness ==
  /\ Handled /\ NoMarker(event.data)
  /\ \E i \in MarkerAt(event.data, "Y") : TRUE
  /\ Len(NonEmptyTokens(Body(event.data))) = 3
  /\ Len(Delivered) = 2
  /\ Delivered[1].amplitude = Norm(15, 1)
  /\ Delivered[2].amplitude = Norm(7, 0)
  /\ Delivered[2].metadata.batchSize = 3
  /\ Delivered[2].metadata.batchIndex = 1


(***************************************************************************)
(* serialService: the end of closePort                                     *)
(***************************************************************************)

\* closePort has been called while read loop i is reading, and awaits it.
ClosingWhileReading(i) ==
  /\ calls.close.pc = "awaitLoop" /\ calls.close.loop = i
  /\ i <= Len(loops) /\ loops[i].pc = "reading"

\* Read loop i has ended and released its reader, and closePort has returned.
ClosedAndReleased(i) ==
  /\ i <= Len(loops) /\ Settled(i) /\ loops[i].releases = 1
  /\ calls.close.pc = "none"

\* C26: once closePort is called on a port whose read loop is reading, the
\* loop ends and releases its reader and closePort returns, whether the
\* device delivers another chunk or not.
C26_CancellationLiveness ==
  \A i \in 1..MaxReaders : ClosingWhileReading(i) ~> ClosedAndReleased(i)


(***************************************************************************)
(* serialService: a failed open                                            *)
(***************************************************************************)

\* This step is an openPort that returns success = false.
OpenPortFails ==
  /\ result = NoResult
  /\ result'.op = "openPort"
  /\ result'.settled = "fulfilled"
  /\ ~result'.success

\* C27: an openPort whose port.open fails returns success = false and leaves
\* the recorded port as it was before the call (calls.open.before), so that
\* the service still reports "no open port" if it did before.
C27_FailedOpenKeepsPort ==
  [][OpenPortFails => svc'.port = calls.open.before]_vars


(***************************************************************************)
(* serialService: the lifecycle of the port                                *)
(***************************************************************************)

\* Read loop i is running: it has not left its while loop.
Running(i) == i \in Reading

\* A running read loop has a recorded port that is open and whose reader it
\* holds.
LoopHasOpenPort ==
  \A i \in 1..Len(loops) :
    Running(i) => svc.port # "null" /\ dev.open /\ dev.readLock = i

\* closePort has returned success.
ClosePortSucceeded == result.op = "closePort" /\ result.success

\* Nothing of the connection is left in the service.
NothingLeft ==
  /\ svc.port = "null" /\ svc.reader = 0 /\ ~svc.keepReading
  /\ \A i \in 1..Len(loops) : ~Running(i)

\* C28: a read loop that is running has a recorded port, which is open and
\* whose reader the loop holds; when closePort returns success, port and
\* reader are null, keepReading is false and no read loop is running.
C28_Lifecycle == LoopHasOpenPort /\ (ClosePortSucceeded => NothingLeft)


(***************************************************************************)
(* serialService: frames and chunks                                        *)
(***************************************************************************)

\* The code units of line feed and carriage return.
LineFeed == 10

CarriageReturn == 13

\* The text ends where a frame ends: it is empty or its last character is a
\* newline.
EndsFrame(text) == text = <<>> \/ text[Len(text)] = LineFeed

\* The chunks that were handed to a dataCallback, in order.
HandedOver == SelectSeq(received, LAMBDA r : r.to # "null")

\* C29: a frame whose text arrives in two consecutive chunks is handed on
\* as one frame: a text that is followed by another one does not end in the
\* middle of a frame.
C29_PartialInputBuffered ==
  \A k \in 1..Len(HandedOver) - 1 : EndsFrame(HandedOver[k].text)


\* The control characters U+0000..U+001F and U+007F.
NonPrintable == (0..31) \cup {127}

\* The text has no control character but newline and carriage return, and
\* no mark of an undecodable byte.
Sanitised(text) ==
  \A j \in 1..Len(text) :
    /\ text[j] \notin NonPrintable \ {LineFeed, CarriageReturn}
    /\ text[j] # 65533

\* C30: the text the data callback gets for a chunk has no control character
\* other than newline and carriage return, and no mark of an undecodable
\* byte other than the placeholder '?'.
C30_ChunkSanitised ==
  \A k \in 1..Len(HandedOver) : Sanitised(HandedOver[k].text)


(***************************************************************************)
(* Properties of the frames with a Z segment                               *)
(***************************************************************************)

\* b is a frame of the three channels: it starts with X, has a ',Y' marker
\* and after the first of them a ',Z' marker, and each of its pieces is a
\* numeral once its marker is taken off.  A marker may occur again.
IsXYZFrame(b) ==
  /\ b # <<>> /\ b[1] = "X"
  /\ MarkerAt(b, "Y") # {} /\ MarkerAt(b, "Z") # {}
  /\ \E y \in MarkerAt(b, "Y") : \A z \in MarkerAt(b, "Z") : y < z
  /\ AllNumerals(PiecesOfBody(b))

\* C31: a frame of the three channels is decoded into samples tagged X, Y
\* and Z, as many in all as the frame has numeric values, also when a ',Y'
\* or ',Z' marker occurs more than once.
C31_TripleLosesNothing ==
  (Handled /\ IsLine(event.data) /\ IsXYZFrame(Body(event.data)))
  => /\ Len(Delivered) = Len(Pieces(event.data))
     /\ Tagged("X") # <<>> /\ Tagged("Y") # <<>> /\ Tagged("Z") # <<>>
     /\ Len(Tagged("X")) + Len(Tagged("Y")) + Len(Tagged("Z"))
          = Len(Delivered)


(***************************************************************************)
(* Properties of the failures of the message handler                       *)
(***************************************************************************)

\* This step is a run of the onmessage of a WebSocket.
HandlerRuns == phase' = "observed" /\ event' # NoEvent

\* The step makes no WebSocket, leaves each in its state and with its
\* callbacks, and leaves nativeWs as it is.
ConnectionUnchanged ==
  /\ nativeWs' = nativeWs
  /\ Len(webSockets') = Len(webSockets)
  /\ \A i \in 1..Len(webSockets) :
       /\ webSockets'[i].readyState = webSockets[i].readyState
       /\ webSockets'[i].onEarthquakeData = webSockets[i].onEarthquakeData
       /\ webSockets'[i].onError = webSockets[i].onError

\* The message of the last run has been delivered as its text decides: a
\* frame X..,Y.. of numerals as the samples of its two channels, a frame
\* without a channel marker as one channel without a tag, a single numeral
\* as one sample, an envelope as its payload.
DeliveredAsDecoded ==
  /\ (IsLine(event.data) /\ IsDual(event.data)
      /\ AllNumerals(XTokens(event.data)) /\ AllNumerals(YTokens(event.data))
      /\ Len(XTokens(event.data)) + Len(YTokens(event.data)) > 0)
     => /\ Len(dataCalls) = 1
        /\ SamplesOf(Tagged("X"), XTokens(event.data), event.now)
        /\ SamplesOf(Tagged("Y"), YTokens(event.data), event.now)
  /\ NoMarker(event.data)
     => OneUnlabeledChannel(NonEmptyTokens(Body(event.data)))
  /\ IsBareNumber(event.data)
     => /\ Len(dataCalls) = 1 /\ Len(Delivered) = 1
        /\ Delivered[1].amplitude = NumeralValue(event.data)
  /\ (event.data[1] = "{" /\ event.json # SyntaxError
      /\ IsEarthquakeEnvelope(event.json))
     => /\ Len(dataCalls) = 1 /\ Len(Delivered) = 1
        /\ SampleOfPayload(Delivered[1], event.json.props.payload)

\* C32: an exception raised while a message is handled, one thrown by
\* onEarthquakeData included, stays in the handler: the run ends in one of
\* the catch clauses of the handler, every WebSocket and the nativeWs handle
\* are as before, the WebSocket of the run is open after it, and a later
\* message of that WebSocket is decoded and delivered as its text decides.
C32_HandlerFailureLocal ==
  /\ [][HandlerRuns => caught' \in {"none", "parseError", "error"}
                       /\ ConnectionUnchanged]_vars
  /\ [](phase = "observed" /\ caught # "none" /\ target # 0
        => webSockets[target].readyState = "OPEN")
  /\ [](Handled /\ after => DeliveredAsDecoded)

\* onEarthquakeData threw for the batch of a frame X..,Y.. that came after
\* a run of the same WebSocket had raised: the frame was decoded and handed
\* over, the outer catch clause was reached, and the WebSocket is open.
C32_Witness ==
  /\ Handled /\ after /\ IsLine(event.data) /\ IsDual(event.data)
  /\ callback = "throws" /\ caught = "error"
  /\ Len(dataCalls) = 1 /\ Len(Delivered) = 2
  /\ webSockets[target].readyState = "OPEN"


(***************************************************************************)
(* The order of the deliveries of a transport                              *)
(***************************************************************************)

\* The read loops whose read has resolved with a chunk they have not handled
\* yet.
InFlight == {i \in 1..Len(loops) : loops[i].pc = "resolved"}

\* The bytes are printable characters of ASCII and line feeds: the text of
\* such a chunk is the chunk.
PlainText(value) ==
  \A k \in 1..Len(value) : value[k] \in (32..126) \cup {LineFeed}

\* The chunks that were read have been handled in the order they were read,
\* each once, but for the one whose handling is to come; a chunk of plain
\* text was handled as its text.
HandledInOrder ==
  /\ \A j, k \in 1..Len(received) : j < k => received[j].n < received[k].n
  /\ \A k \in 1..Len(received) :
       /\ received[k].n \in 1..Len(dev.read)
       /\ PlainText(dev.read[received[k].n])
          => received[k].text = dev.read[received[k].n]
  /\ Len(received) + Cardinality(InFlight) = Len(dev.read)

\* At most one chunk awaits its handling, and a read loop that runs holds
\* the lock of the readable stream, so that at most one runs.
OneAtATime ==
  /\ Cardinality(InFlight) <= 1
  /\ \A i \in Reading : dev.readLock = i

\* This step is a read of the port that resolves with a chunk.
ReadsChunk == Len(dev'.read) > Len(dev.read)

\* C23: within a transport the chunks or messages are handed on in the order
\* they were read, each once and one at a time.  Of the port: the chunks the
\* read loops have handled are those that were read, in that order, at most
\* one read chunk awaits its handling, at most one read loop runs, and a
\* chunk is read only when every chunk read before it has been handled.  Of
\* a WebSocket: a run of onmessage, which awaits nothing, hands its message
\* on in at most one call of onEarthquakeData, made before the run ends.
C23_ArrivalOrder ==
  /\ [](HandledInOrder /\ OneAtATime)
  /\ [][ReadsChunk => InFlight = {} /\ Len(received) = Len(dev.read)]_vars
  /\ [][HandlerRuns => Len(dataCalls') <= 1]_vars

\* Two chunks have been read and handed to a dataCallback one after the
\* other, the second one the plain text "1.5\n".
C23_Witness ==
  /\ Len(received) = 2
  /\ received[1].to = "function" /\ received[2].to = "function"
  /\ received[1].n = 1 /\ received[2].n = 2
  /\ received[1].text # received[2].text
  /\ PlainText(dev.read[2]) /\ received[2].text = dev.read[2]


(***************************************************************************)
(* Properties of sendEarthquakeData                                        *)
(***************************************************************************)

\* The Socket.IO connection is connected: socket refers to a socket whose
\* last event was 'connect'.
IoIsConnected == socket # 0 /\ sockets[socket].state = "connected"

\* C33: sendEarthquakeData returns false and emits nothing whenever the
\* Socket.IO connection is not connected: before connectSocket, before the
\* first 'connect', after a 'disconnect' event and after disconnectSocket.
C33_SendNeedsConnection ==
  (ioPhase = "sent" /\ ~IoIsConnected)
  => ~ioSent.returned /\ ioSent.on = 0


(***************************************************************************)
(* Socket.IO: how often a subscriber is called                             *)
(***************************************************************************)

\* The number of the entries of the sequence seq that satisfy Test.
CountOf(seq, Test(_)) == Len(SelectSeq(seq, Test))

\* The last event arrived on the socket all the subscriptions were made on,
\* there is one at least, and no callback threw.
EventForAllSubscriptions ==
  /\ ioPhase = "observed" /\ ioSocket = socket
  /\ Len(subscribers) >= 1
  /\ sockets[ioSocket].listeners = Len(subscribers)
  /\ ioThrowers = {}

\* C34: after any number k >= 1 of subscribeToEarthquakeData calls on one
\* connected socket, an 'earthquake-data' event invokes each registered
\* callback once for each of its registrations, not once for each listener
\* of the socket.
C34_ExactlyOnce ==
  EventForAllSubscriptions
  => \A cb \in CallbackIds :
       CountOf(ioCalls, LAMBDA c : c.cb = cb)
         = CountOf(subscribers, LAMBDA s : s = cb)


(***************************************************************************)
(* Properties of the decoder as a total function                           *)
(***************************************************************************)

\* onmessage has just handled a text message that is not JSON.
HandledText ==
  /\ phase = "observed" /\ event.data # <<>>
  /\ event.data[1] \notin {"{", "["}

\* b starts with X and has a ',Z' marker and no ',Y' marker, and its pieces
\* are numerals once the markers are taken off.
IsXZFrame(b) ==
  /\ b # <<>> /\ b[1] = "X"
  /\ MarkerAt(b, "Y") = {} /\ MarkerAt(b, "Z") # {}
  /\ AllNumerals(PiecesOfBody(b))

\* C35: the decoding of a text message raises no exception of its own: the
\* catch-all of the handler is reached only when onEarthquakeData has been
\* called and has thrown; and a frame X..,Z.. without a ',Y' marker is
\* delivered with samples tagged X and Z.
C35_DecoderTotal ==
  HandledText
  => /\ caught = "error" => callback = "throws" /\ Len(dataCalls) = 1
     /\ (callback # "undefined" /\ IsXZFrame(Body(event.data)))
        => Tagged("X") # <<>> /\ Tagged("Z") # <<>>


(***************************************************************************)
(* serialService: a second startReading                                    *)
(***************************************************************************)

\* This step is a startReading call made while a read loop holds the reader
\* of the port.
StartWhileReading ==
  /\ result = NoResult /\ result'.op = "startReading"
  /\ dev.readLock # 0 /\ Running(dev.readLock)

\* C36: a startReading call made while a read loop holds the port's reader
\* returns success = false, starts no second loop, and leaves dataCallback,
\* errorCallback, keepReading, reader and readLoopPromise as they were.
C36_FailedStartChangesNothing ==
  [][StartWhileReading
     => ~result'.success /\ loops' = loops /\ svc' = svc]_vars


(***************************************************************************)
(* serialService: the writer of sendData                                   *)
(***************************************************************************)

\* This step is the return of a sendData call that had acquired the writer.
SendDataReturns == calls'.send < calls.send

\* C37: sendData releases the writer lock it acquired on every exit path,
\* the one of a failed write too, so that a later sendData on the port can
\* acquire the writer.
C37_WriterReleased ==
  [][SendDataReturns => ~dev'.writeLock /\ ~GetWriterThrows']_vars


(***************************************************************************)
(* Socket.IO: the connections the module has made                          *)
(***************************************************************************)

\* The sockets io() has made that are connected.
LiveSockets == {i \in 1..Len(sockets) : sockets[i].state = "connected"}

\* C38: of the connections connectSocket has made at most one is open, and
\* it is the one the module refers to: a connect issued while an earlier
\* connection is open does not leave that one open and out of reach, and
\* after disconnectSocket none is open.
C38_SingleLiveConnection ==
  /\ Cardinality(LiveSockets) <= 1
  /\ \A i \in LiveSockets : i = socket


(***************************************************************************)
(* Properties of the order of a batch                                      *)
(***************************************************************************)

\* The place of a channel in a batch.
ChannelRank(ch) ==
  IF ch = "X" THEN 1 ELSE IF ch = "Y" THEN 2 ELSE IF ch = "Z" THEN 3 ELSE 0

\* The samples list X before Y before Z, and each channel by batchIndex.
InChannelOrder(samples) ==
  \A i, j \in 1..Len(samples) :
    i < j =>
      /\ ChannelRank(ChannelOf(samples[i])) <= ChannelRank(ChannelOf(samples[j]))
      /\ ChannelOf(samples[i]) = ChannelOf(samples[j])
         => samples[i].metadata.batchIndex < samples[j].metadata.batchIndex

\* C39: a comma-separated message causes one call of onEarthquakeData at
\* most, and the samples of that call list all of X first, then all of Y,
\* then all of Z, each channel in ascending batchIndex.
C39_OneBatchInChannelOrder ==
  (Handled /\ IsLine(event.data))
  => Len(dataCalls) <= 1 /\ InChannelOrder(Delivered)

\* A frame was delivered in one call with two samples of X, then one of Y,
\* then one of Z.
C39_Witness ==
  /\ Handled /\ IsLine(event.data) /\ Len(dataCalls) = 1
  /\ Len(Delivered) = 4
  /\ ChannelOf(Delivered[1]) = "X" /\ ChannelOf(Delivered[2]) = "X"
  /\ Delivered[1].metadata.batchIndex = 0
  /\ Delivered[2].metadata.batchIndex = 1
  /\ ChannelOf(Delivered[3]) = "Y" /\ ChannelOf(Delivered[4]) = "Z"

====
